---- MODULE Spec2Model ----
(***************************************************************************)
(* Optimistic concurrency control of the silo transaction core:            *)
(* transaction<Protocol, Traits>::commit and abort_impl, and the           *)
(* txn_context helpers local_search_str, key_in_absent_set and             *)
(* add_absent_range (src/txn_impl.h).  The tuple (dbtuple), the ordered    *)
(* index (btree), the per-index operations (txn_btree) and the protocol    *)
(* hooks (consistent_snapshot_tid, can_read_tid, gen_commit_tid) are not   *)
(* among the source files; they are modelled from spec.md sections 3, 4.1  *)
(* to 4.4 and 9.                                                           *)
(***************************************************************************)
EXTENDS Integers, Sequences, FiniteSets, TLC

\* ------------------------------------------------------------------ bounds
NumTxns == 3
NumKeys == 2
MaxTuples == 3
MaxOps == 2
MaxRangeKey == 6

Txns == 1..NumTxns
Keys == 1..NumKeys
TupleIds == 1..MaxTuples
NULL == 0
\* the empty payload: a logical tombstone (it->second.r.empty())
Nil == 0
\* the payload of the records loaded before any transaction runs
LoadedValue == NumTxns + 1
\* the tid a freshly allocated tuple carries until a commit stamps it
MIN_TID == 0

VARIABLES
  tuples,            \* the heap of version records, by identity (address)
  btree,             \* underlying_btree: key -> tuple (NULL when absent)
  node_version,      \* version number of the leaf node that holds the keys
  last_tid,          \* the last commit tid the protocol minted
  state, reason, low_level_scan, snapshot_tid_t,
  read_set, absent_set, write_set, node_scan, absent_range_set,
  pc, cur, try_insert_path, dbtuples, commit_tid,
  doThrow,           \* the argument of the commit call in progress
  ret,               \* write_record_at's replacement tuple, until swapped in
  result,            \* what the last commit call returned
  thrown,            \* the exception the last call raised, "none" if it returned
  obs,               \* what each transaction observed of the store, per key
  ops_left, allowed, \* the operations a transaction may still issue
  env,               \* the inputs the callers and the storage layer choose from
  hist,              \* per transaction: what held when it began and when it
                     \* called commit, and where its commit aborted
  loaded             \* the contents of the index before any transaction

sharedVars == <<tuples, btree, node_version, last_tid>>
txnVars == <<state, reason, low_level_scan, snapshot_tid_t>>
ctxVars == <<read_set, absent_set, write_set, node_scan, absent_range_set>>
commitVars == <<pc, cur, try_insert_path, dbtuples, commit_tid, doThrow, ret, result, thrown>>
callerVars == <<obs, ops_left, allowed, env, loaded>>
vars == <<sharedVars, txnVars, ctxVars, commitVars, callerVars, hist>>

\* ------------------------------------------------------------- key ranges
key_range(a, has_b, b) == [a |-> a, has_b |-> has_b, b |-> b]

is_empty_range(r) == r.has_b /\ r.a >= r.b

key_in_range(r, k) == r.a <= k /\ (~r.has_b \/ k < r.b)

contains(r, that) ==
  IF r.a > that.a THEN FALSE
  ELSE IF ~r.has_b THEN TRUE
  ELSE IF ~that.has_b THEN FALSE
  ELSE r.b >= that.b

key_range_search_less_cmp(k, range) == ~range.has_b \/ k < range.b

Min(x, y) == IF x <= y THEN x ELSE y

\* a variant of upper_bound that never finds a range
upper_bound_end(ars, k) == Len(ars) + 1

\* std::upper_bound(begin, end, k, key_range_search_less_cmp()): the first
\* position whose range lies above k, Len + 1 for end()
upper_bound(ars, k) ==
  LET hits == {i \in 1..Len(ars) : key_range_search_less_cmp(k, ars[i])}
  IN IF hits = {} THEN Len(ars) + 1
     ELSE CHOOSE i \in hits : \A j \in hits : i <= j

key_in_absent_set(ars, k) ==
  LET it == upper_bound(ars, k)
  IN IF it = Len(ars) + 1 THEN FALSE ELSE key_in_range(ars[it], k)

\* a variant of the loop of lines 614-616 that stops at once
merge_end_first(ars, it, range) == it + 1

\* the loop of lines 614-616: the first range right of `it` that ends the merge
merge_end(ars, it, range) ==
  LET stops == {j \in (it + 1)..Len(ars) :
                  ars[j].a >= range.b \/ ~ars[j].has_b \/ ars[j].b >= range.b}
  IN IF stops = {} THEN Len(ars) + 1
     ELSE CHOOSE j \in stops : \A i \in stops : j <= i

\* a variant of add_absent_range that never merges with the left neighbour
add_absent_range_no_merge_left(ars, range) ==
  IF is_empty_range(range) THEN ars
  ELSE
    LET n == Len(ars)
        it == upper_bound(ars, range.a)
    IN
    IF it = n + 1 THEN
      IF n > 0 /\ ars[n].b = range.a
      THEN [ars EXCEPT ![n].has_b = range.has_b, ![n].b = range.b]
      ELSE Append(ars, range)
    ELSE IF contains(ars[it], range) THEN ars
    ELSE
      LET merge_left == FALSE
          new_absent_range_set ==
            SubSeq(ars, 1, IF merge_left THEN it - 2 ELSE it - 1)
          left_key == IF merge_left THEN ars[it - 1].a
                      ELSE Min(ars[it].a, range.a)
      IN
      IF range.has_b THEN
        IF ~ars[it].has_b \/ ars[it].b >= range.b THEN
          IF range.b < ars[it].a
          THEN new_absent_range_set
                 \o <<key_range(left_key, TRUE, range.b)>>
                 \o SubSeq(ars, it, n)
          ELSE new_absent_range_set
                 \o <<key_range(left_key, ars[it].has_b, ars[it].b)>>
                 \o SubSeq(ars, it + 1, n)
        ELSE
          LET it1 == merge_end(ars, it, range)
          IN
          IF it1 = n + 1
          THEN new_absent_range_set \o <<key_range(left_key, TRUE, range.b)>>
          ELSE IF ars[it1].a <= range.b
          THEN new_absent_range_set
                 \o <<key_range(left_key, ars[it1].has_b, ars[it1].b)>>
                 \o SubSeq(ars, it1 + 1, n)
          ELSE new_absent_range_set
                 \o <<key_range(left_key, TRUE, range.b)>>
                 \o SubSeq(ars, it1, n)
      ELSE new_absent_range_set \o <<key_range(left_key, FALSE, NULL)>>

add_absent_range(ars, range) ==
  IF is_empty_range(range) THEN ars
  ELSE
    LET n == Len(ars)
        it == upper_bound(ars, range.a)
    IN
    IF it = n + 1 THEN
      IF n > 0 /\ ars[n].b = range.a
      THEN [ars EXCEPT ![n].has_b = range.has_b, ![n].b = range.b]
      ELSE Append(ars, range)
    ELSE IF contains(ars[it], range) THEN ars
    ELSE
      LET merge_left == it # 1 /\ ars[it - 1].b = range.a
          new_absent_range_set ==
            SubSeq(ars, 1, IF merge_left THEN it - 2 ELSE it - 1)
          left_key == IF merge_left THEN ars[it - 1].a
                      ELSE Min(ars[it].a, range.a)
      IN
      IF range.has_b THEN
        IF ~ars[it].has_b \/ ars[it].b >= range.b THEN
          IF range.b < ars[it].a
          THEN new_absent_range_set
                 \o <<key_range(left_key, TRUE, range.b)>>
                 \o SubSeq(ars, it, n)
          ELSE new_absent_range_set
                 \o <<key_range(left_key, ars[it].has_b, ars[it].b)>>
                 \o SubSeq(ars, it + 1, n)
        ELSE
          LET it1 == merge_end(ars, it, range)
          IN
          IF it1 = n + 1
          THEN new_absent_range_set \o <<key_range(left_key, TRUE, range.b)>>
          ELSE IF ars[it1].a <= range.b
          THEN new_absent_range_set
                 \o <<key_range(left_key, ars[it1].has_b, ars[it1].b)>>
                 \o SubSeq(ars, it1 + 1, n)
          ELSE new_absent_range_set
                 \o <<key_range(left_key, TRUE, range.b)>>
                 \o SubSeq(ars, it1, n)
      ELSE new_absent_range_set \o <<key_range(left_key, FALSE, NULL)>>

\* ------------------------------------------------------------------ tuples
FreeTuple ==
  [alloc |-> FALSE, version |-> MIN_TID, latest |-> FALSE, deleting |-> FALSE,
   lock |-> NULL, val |-> Nil, prev |-> NULL]

\* dbtuple::alloc_first(.., r.data(), r.size()): a head tuple that already
\* carries the payload (lines 229-233, 442-443)
alloc_first(r) ==
  [alloc |-> TRUE, version |-> MIN_TID, latest |-> TRUE, deleting |-> FALSE,
   lock |-> NULL, val |-> r, prev |-> NULL]

FreeIds == {i \in TupleIds : ~tuples[i].alloc}

IsLatest(tp) == tuples[tp].latest
IsDeleting(tp) == tuples[tp].deleting
is_latest_version(tp, t) == tuples[tp].latest /\ tuples[tp].version = t
stable_is_latest_version(tp, t) == is_latest_version(tp, t)
latest_value_is_nil(tp) == tuples[tp].latest /\ tuples[tp].val = Nil
stable_latest_value_is_nil(tp) == latest_value_is_nil(tp)

\* Protocol::can_read_tid: a tid is readable unless the transaction runs on a
\* consistent snapshot that the tid exceeds
can_read_tid(t, tid) ==
  ~snapshot_tid_t[t].first \/ tid <= snapshot_tid_t[t].second

\* the visible contents of the index: key -> latest payload (Nil when absent)
StoreValue(k) == IF btree[k] = NULL THEN Nil ELSE tuples[btree[k]].val

\* -------------------------------------------------------- context entries
NoRead == [in |-> FALSE, t |-> MIN_TID, holds_lock |-> FALSE]
NoAbsent == [in |-> FALSE, type |-> "ABSENT_REC_READ", tuple |-> NULL]
NoWrite == [in |-> FALSE, r |-> Nil, insert |-> FALSE]
NoScan == [in |-> FALSE, v |-> 0]
NotObserved == 0 - 1

AbortReasons ==
  {"ABORT_REASON_NONE", "ABORT_REASON_USER",
   "ABORT_REASON_WRITE_NODE_INTERFERENCE",
   "ABORT_REASON_READ_NODE_INTEREFERENCE",
   "ABORT_REASON_READ_ABSENCE_INTEREFERENCE",
   "ABORT_REASON_NODE_SCAN_READ_VERSION_CHANGED"}

\* the operations of the transaction API: <<kind, key, has_b, b>>
PointOps == {<<kind, k, FALSE, NULL>> :
               kind \in {"get", "put", "insert", "remove"}, k \in Keys}
ScanOps == {<<"scan", lo, TRUE, b>> : lo \in Keys, b \in 2..(NumKeys + 1)}
             \cup {<<"scan", lo, FALSE, NULL>> : lo \in Keys}
AllOps == PointOps \cup {o \in ScanOps : ~o[3] \/ o[2] < o[4]}

InitTuple(k) == k

NoHistory ==
  [began_after |-> {}, concurrent |-> {}, stale_read |-> FALSE,
   absent_inserted |-> FALSE, node_changed |-> FALSE, range_phantom |-> FALSE,
   abort_pc |-> "none",
   last_abort |-> [was |-> "none", with |-> "ABORT_REASON_NONE"],
   added |-> [before |-> <<>>, range |-> key_range(0, TRUE, 0)],
   tid_finish |-> <<>>,
   search |-> [key |-> NULL, found |-> FALSE, v |-> Nil]]

\* The store holds any subset of the keys, loaded at MIN_TID; no transaction
\* object exists yet.  `ops` gives each transaction the operations it may
\* issue and `budget` how many of them, `lls` its TXN_FLAG_LOW_LEVEL_SCAN
\* choices, `snap` the protocol's choices of handing out consistent snapshot
\* tids.
InitWith(ops, budget, lls, snap, stores, e) ==
  /\ loaded \in stores
  /\ btree = [k \in Keys |-> IF loaded[k] = Nil THEN NULL ELSE InitTuple(k)]
  /\ tuples = [i \in TupleIds |->
                 IF \E k \in Keys : loaded[k] # Nil /\ InitTuple(k) = i
                 THEN alloc_first(LoadedValue) ELSE FreeTuple]
  /\ node_version = 0
  /\ last_tid = MIN_TID
  /\ state = [t \in Txns |-> "NOT_STARTED"]
  /\ reason = [t \in Txns |-> "ABORT_REASON_NONE"]
  /\ low_level_scan \in [Txns -> lls]
  /\ \E s \in snap : snapshot_tid_t = [t \in Txns |-> [first |-> s, second |-> MIN_TID]]
  /\ read_set = [t \in Txns |-> [i \in TupleIds |-> NoRead]]
  /\ absent_set = [t \in Txns |-> [k \in Keys |-> NoAbsent]]
  /\ write_set = [t \in Txns |-> [k \in Keys |-> NoWrite]]
  /\ node_scan = [t \in Txns |-> NoScan]
  /\ absent_range_set = [t \in Txns |-> <<>>]
  /\ pc = [t \in Txns |-> "idle"]
  /\ cur = [t \in Txns |-> 0]
  /\ try_insert_path = [t \in Txns |-> FALSE]
  /\ dbtuples = [t \in Txns |-> <<>>]
  /\ commit_tid = [t \in Txns |-> [first |-> FALSE, second |-> MIN_TID]]
  /\ doThrow = [t \in Txns |-> FALSE]
  /\ ret = [t \in Txns |-> NULL]
  /\ result = [t \in Txns |-> "none"]
  /\ thrown = [t \in Txns |-> "none"]
  /\ obs = [t \in Txns |-> [k \in Keys |-> NotObserved]]
  /\ ops_left = budget
  /\ allowed = ops
  /\ env = e
  /\ hist = [t \in Txns |-> NoHistory]

AllStores == [Keys -> {Nil, LoadedValue}]

\* transaction::transaction(flags): the object exists, in TXN_EMBRYO, and the
\* protocol fixes its snapshot tid
Begin(t) ==
  /\ state[t] = "NOT_STARTED"
  /\ t \in env.txns
  /\ state' = [state EXCEPT ![t] = "TXN_EMBRYO"]
  /\ snapshot_tid_t' = [snapshot_tid_t EXCEPT ![t].second = last_tid]
  /\ hist' = [hist EXCEPT ![t].began_after = {u \in Txns : state[u] = "TXN_COMMITED"}]
  /\ UNCHANGED <<sharedVars, reason, low_level_scan, ctxVars, commitVars, callerVars>>

Usable(t) == state[t] \in {"TXN_EMBRYO", "TXN_ACTIVE"} /\ pc[t] = "idle"

\* a variant of local_search_str that consults the absent set before the
\* write set
local_search_str_absent_first(t, k) ==
  IF absent_set[t][k].in
  THEN [found |-> TRUE, v |-> Nil]
  ELSE IF write_set[t][k].in
  THEN [found |-> TRUE, v |-> write_set[t][k].r]
  ELSE IF ~low_level_scan[t] /\ key_in_absent_set(absent_range_set[t], k)
  THEN [found |-> TRUE, v |-> Nil]
  ELSE [found |-> FALSE, v |-> Nil]

\* txn_context::local_search_str: write set, then absent set, then (without
\* LOW_LEVEL_SCAN) the absent ranges
local_search_str(t, k) ==
  IF write_set[t][k].in
  THEN [found |-> TRUE, v |-> write_set[t][k].r]
  ELSE IF absent_set[t][k].in
  THEN [found |-> TRUE, v |-> Nil]
  ELSE IF ~low_level_scan[t] /\ key_in_absent_set(absent_range_set[t], k)
  THEN [found |-> TRUE, v |-> Nil]
  ELSE [found |-> FALSE, v |-> Nil]

Observe(o, k, v) == IF o[k] = NotObserved THEN [o EXCEPT ![k] = v] ELSE o

\* first-read-wins entry of the read set for a tuple found in the index
ReadTuple(rs, tp) ==
  IF rs[tp].in THEN rs
  ELSE [rs EXCEPT ![tp] = [in |-> TRUE, t |-> tuples[tp].version, holds_lock |-> FALSE]]

Issue(t, op) ==
  /\ Usable(t)
  /\ ops_left[t] > 0
  /\ op \in allowed[t]
  /\ ops_left' = [ops_left EXCEPT ![t] = @ - 1]
  /\ state' = [state EXCEPT ![t] = "TXN_ACTIVE"]
  /\ UNCHANGED <<sharedVars, reason, low_level_scan, snapshot_tid_t, commitVars,
                 allowed, env, loaded, hist>>

\* get: local lookup first, else search the index; a hit binds the read set
\* to the tuple's tid, a miss records the key in the absent set
Get(t, k) ==
  /\ Issue(t, <<"get", k, FALSE, NULL>>)
  /\ IF local_search_str(t, k).found
     THEN UNCHANGED <<ctxVars, obs>>
     ELSE IF btree[k] # NULL
     THEN /\ read_set' = [read_set EXCEPT ![t] = ReadTuple(@, btree[k])]
          /\ obs' = [obs EXCEPT ![t] = Observe(@, k, tuples[btree[k]].val)]
          /\ UNCHANGED <<absent_set, write_set, node_scan, absent_range_set>>
     ELSE /\ absent_set' = [absent_set EXCEPT ![t][k] =
                              [in |-> TRUE, type |-> "ABSENT_REC_READ", tuple |-> NULL]]
          /\ obs' = [obs EXCEPT ![t] = Observe(@, k, Nil)]
          /\ UNCHANGED <<read_set, write_set, node_scan, absent_range_set>>

\* put / insert / remove only record the intent in the write set; the insert
\* hint is sticky
Write(t, kind, k) ==
  /\ Issue(t, <<kind, k, FALSE, NULL>>)
  /\ write_set' = [write_set EXCEPT ![t][k] =
                     [in |-> TRUE,
                      r |-> IF kind = "remove" THEN Nil ELSE t,
                      insert |-> (kind = "insert") \/ @.insert]]
  /\ UNCHANGED <<read_set, absent_set, node_scan, absent_range_set, obs>>

\* the gaps a range scan proved empty, added left to right
RECURSIVE ScanGaps(_, _, _, _, _)
ScanGaps(ars, start, k, has_b, b) ==
  IF k > NumKeys \/ (has_b /\ k >= b)
  THEN add_absent_range(ars, key_range(start, has_b, b))
  ELSE IF btree[k] # NULL
  THEN ScanGaps(add_absent_range(ars, key_range(start, TRUE, k)), k + 1, k + 1, has_b, b)
  ELSE ScanGaps(ars, start, k + 1, has_b, b)

RECURSIVE ReadTuples(_, _)
ReadTuples(rs, tps) ==
  IF tps = {} THEN rs
  ELSE LET tp == CHOOSE x \in tps : TRUE
       IN ReadTuples(ReadTuple(rs, tp), tps \ {tp})

InScan(k, lo, has_b, b) == lo <= k /\ (~has_b \/ k < b)

\* scan: visited tuples enter the read set; the phantom guard is the leaf
\* node's version (LOW_LEVEL_SCAN) or the absent ranges
Scan(t, lo, has_b, b) ==
  /\ Issue(t, <<"scan", lo, has_b, b>>)
  /\ LET hit == {k \in Keys : InScan(k, lo, has_b, b) /\ btree[k] # NULL}
     IN /\ read_set' = [read_set EXCEPT ![t] = ReadTuples(@, {btree[k] : k \in hit})]
        /\ obs' = [obs EXCEPT ![t] =
                     [k \in Keys |-> IF InScan(k, lo, has_b, b) /\ @[k] = NotObserved
                                     THEN StoreValue(k) ELSE @[k]]]
  /\ IF low_level_scan[t]
     THEN /\ node_scan' = [node_scan EXCEPT ![t] =
                             IF @.in THEN @ ELSE [in |-> TRUE, v |-> node_version]]
          /\ UNCHANGED absent_range_set
     ELSE /\ absent_range_set' = [absent_range_set EXCEPT ![t] =
                                    ScanGaps(@, lo, lo, has_b, b)]
          /\ UNCHANGED node_scan
  /\ UNCHANGED <<absent_set, write_set>>


\* ------------------------------------------------------------------ commit
MinOf(S) == CHOOSE x \in S : \A y \in S : x <= y
NextIn(S, x) == IF {y \in S : y > x} = {} THEN NULL ELSE MinOf({y \in S : y > x})

WriteKeys(t) == {k \in Keys : write_set[t][k].in}
ReadEntries(t) == {tp \in TupleIds : read_set[t][tp].in}
AbsentKeys(t) == {k \in Keys : absent_set[t][k].in}

\* a variant of dbtuple_info that drops the record to write
dbtuple_info_no_record(tp, key, locked, r, insert) ==
  [tuple |-> tp, key |-> key, locked |-> locked, r |-> Nil, insert |-> insert]

dbtuple_info(tp, key, locked, r, insert) ==
  [tuple |-> tp, key |-> key, locked |-> locked, r |-> r, insert |-> insert]

\* std::sort(dbtuples.begin(), dbtuples.end(), LNodeComp()): by tuple identity
RECURSIVE SortByTuple(_)
SortByTuple(seq) ==
  IF Len(seq) <= 1 THEN seq
  ELSE LET m == CHOOSE i \in 1..Len(seq) : \A j \in 1..Len(seq) : seq[i].tuple <= seq[j].tuple
           rest == [j \in 1..(Len(seq) - 1) |-> IF j < m THEN seq[j] ELSE seq[j + 1]]
       IN <<seq[m]>> \o SortByTuple(rest)

\* the next entry of the lock loop that Phase A did not lock already
NextUnlocked(dbt, i) ==
  LET todo == {j \in i..Len(dbt) : ~dbt[j].locked}
  IN IF todo = {} THEN NULL ELSE MinOf(todo)

\* Where commit goes once stage `s` of the validation is done: 1 read set,
\* 2 absent set, 3 node scan or absent ranges, 4 write_records; a stage with
\* nothing to iterate is passed over.
RECURSIVE NextStage(_, _, _)
NextStage(t, s, dbt) ==
  IF s = 1 THEN
    IF ReadEntries(t) # {}
    THEN [pc |-> "validate_read_set", cur |-> MinOf(ReadEntries(t))]
    ELSE NextStage(t, 2, dbt)
  ELSE IF s = 2 THEN
    IF AbsentKeys(t) # {}
    THEN [pc |-> "validate_absent_set", cur |-> MinOf(AbsentKeys(t))]
    ELSE NextStage(t, 3, dbt)
  ELSE IF s = 3 THEN
    IF low_level_scan[t] /\ node_scan[t].in
    THEN [pc |-> "validate_node_scan", cur |-> 1]
    ELSE IF ~low_level_scan[t] /\ absent_range_set[t] # <<>>
    THEN [pc |-> "validate_absent_range", cur |-> 1]
    ELSE NextStage(t, 4, dbt)
  ELSE IF dbt # <<>>
    THEN [pc |-> "write_records", cur |-> 1]
    ELSE [pc |-> "finish", cur |-> 0]

\* a variant of line 290 that validates whatever the snapshot says
AfterFindWriteNodes_always_validates(t, dbt) ==
  IF dbt = <<>> THEN NextStage(t, 1, dbt)
  ELSE IF NextUnlocked(dbt, 1) = NULL THEN [pc |-> "gen_commit_tid", cur |-> 0]
  ELSE [pc |-> "lock_write_nodes", cur |-> NextUnlocked(dbt, 1)]

\* Where commit goes after find_write_nodes (line 290): straight to the end
\* for a read-only transaction on a consistent snapshot, else to the lock
\* loop over the sorted list, else to the validation.
AfterFindWriteNodes(t, dbt) ==
  IF snapshot_tid_t[t].first /\ dbt = <<>>
  THEN [pc |-> "finish", cur |-> 0]
  ELSE IF dbt = <<>> THEN NextStage(t, 1, dbt)
  ELSE IF NextUnlocked(dbt, 1) = NULL THEN [pc |-> "gen_commit_tid", cur |-> 0]
  ELSE [pc |-> "lock_write_nodes", cur |-> NextUnlocked(dbt, 1)]

Goto(t, to) ==
  /\ pc' = [pc EXCEPT ![t] = to.pc]
  /\ cur' = [cur EXCEPT ![t] = to.cur]

AbortWith(t, r) ==
  /\ reason' = [reason EXCEPT ![t] = r]
  /\ pc' = [pc EXCEPT ![t] = "do_abort"]
  /\ hist' = [hist EXCEPT ![t].abort_pc = pc[t]]
  /\ UNCHANGED cur

\* what holds of the sets of transaction t against the store right now
stale_read(t) ==
  \E tp \in ReadEntries(t) : ~is_latest_version(tp, read_set[t][tp].t)

committed_value(k) ==
  /\ btree[k] # NULL
  /\ tuples[btree[k]].version # MIN_TID
  /\ tuples[btree[k]].val # Nil

absent_inserted(t) == \E k \in AbsentKeys(t) : committed_value(k)

\* the scanned leaf node changed and another transaction's insert is stamped
node_changed(t) ==
  /\ low_level_scan[t] /\ node_scan[t].in /\ node_scan[t].v # node_version
  /\ \E u \in Txns \ {t} : \E i \in 1..Len(dbtuples[u]) :
       dbtuples[u][i].insert /\ tuples[dbtuples[u][i].tuple].version # MIN_TID

range_phantom(t) ==
  /\ ~low_level_scan[t]
  /\ \E i \in 1..Len(absent_range_set[t]), k \in Keys :
       key_in_range(absent_range_set[t][i], k) /\ committed_value(k)

\* the history recorded as t enters commit: the transactions in commit at the
\* same time, and which of t's guards the store has already invalidated
EnterCommit(t) ==
  [u \in Txns |->
     IF u = t
     THEN [hist[t] EXCEPT !.concurrent = {w \in Txns \ {t} : pc[w] # "idle"},
                          !.stale_read = stale_read(t),
                          !.absent_inserted = absent_inserted(t),
                          !.node_changed = node_changed(t),
                          !.range_phantom = range_phantom(t)]
     ELSE IF pc[u] # "idle"
     THEN [hist[u] EXCEPT !.concurrent = @ \cup {t}]
     ELSE hist[u]]

\* a variant of the switch of lines 171-181 that answers true on TXN_ABRT too
CommitCall_terminal_true(t) ==
  /\ pc[t] = "idle"
  /\ state[t] # "NOT_STARTED"
  /\ \E d \in env.throws :
       /\ doThrow' = [doThrow EXCEPT ![t] = d]
       /\ IF state[t] \in {"TXN_COMMITED", "TXN_ABRT"} THEN
            /\ result' = [result EXCEPT ![t] = "true"]
            /\ thrown' = [thrown EXCEPT ![t] = "none"]
            /\ UNCHANGED <<pc, cur, try_insert_path, dbtuples, commit_tid, ret, hist>>
          ELSE
            /\ hist' = EnterCommit(t)
            /\ dbtuples' = [dbtuples EXCEPT ![t] = <<>>]
            /\ commit_tid' = [commit_tid EXCEPT ![t] = [first |-> FALSE, second |-> MIN_TID]]
            /\ IF WriteKeys(t) = {}
               THEN /\ Goto(t, AfterFindWriteNodes(t, <<>>))
                    /\ UNCHANGED try_insert_path
               ELSE /\ Goto(t, [pc |-> "find_write_nodes", cur |-> MinOf(WriteKeys(t))])
                    /\ try_insert_path' = [try_insert_path EXCEPT ![t] =
                                             write_set[t][MinOf(WriteKeys(t))].insert]
            /\ UNCHANGED <<ret, result, thrown>>
  /\ UNCHANGED <<sharedVars, txnVars, ctxVars, callerVars>>

\* commit(doThrow), lines 171-187: a terminal transaction answers at once
CommitCall(t) ==
  /\ pc[t] = "idle"
  /\ state[t] # "NOT_STARTED"
  /\ \E d \in env.throws :
       /\ doThrow' = [doThrow EXCEPT ![t] = d]
       /\ IF state[t] = "TXN_COMMITED" THEN
            /\ result' = [result EXCEPT ![t] = "true"]
            /\ thrown' = [thrown EXCEPT ![t] = "none"]
            /\ UNCHANGED <<pc, cur, try_insert_path, dbtuples, commit_tid, ret, hist>>
          ELSE IF state[t] = "TXN_ABRT" THEN
            /\ result' = [result EXCEPT ![t] = IF d THEN "throw" ELSE "false"]
            /\ thrown' = [thrown EXCEPT ![t] = IF d THEN reason[t] ELSE "none"]
            /\ UNCHANGED <<pc, cur, try_insert_path, dbtuples, commit_tid, ret, hist>>
          ELSE
            /\ hist' = EnterCommit(t)
            /\ dbtuples' = [dbtuples EXCEPT ![t] = <<>>]
            /\ commit_tid' = [commit_tid EXCEPT ![t] = [first |-> FALSE, second |-> MIN_TID]]
            /\ IF WriteKeys(t) = {}
               THEN /\ Goto(t, AfterFindWriteNodes(t, <<>>))
                    /\ UNCHANGED try_insert_path
               ELSE /\ Goto(t, [pc |-> "find_write_nodes", cur |-> MinOf(WriteKeys(t))])
                    /\ try_insert_path' = [try_insert_path EXCEPT ![t] =
                                             write_set[t][MinOf(WriteKeys(t))].insert]
            /\ UNCHANGED <<ret, result, thrown>>
  /\ UNCHANGED <<sharedVars, txnVars, ctxVars, callerVars>>

\* the end of one iteration of the write-set loop (line 286)
NextWrite(t, k, dbt) ==
  IF NextIn(WriteKeys(t), k) = NULL
  THEN /\ LET sorted == SortByTuple(dbt)
          IN /\ dbtuples' = [dbtuples EXCEPT ![t] = sorted]
             /\ Goto(t, AfterFindWriteNodes(t, sorted))
       /\ UNCHANGED try_insert_path
  ELSE /\ dbtuples' = [dbtuples EXCEPT ![t] = dbt]
       /\ Goto(t, [pc |-> "find_write_nodes", cur |-> NextIn(WriteKeys(t), k)])
       /\ try_insert_path' = [try_insert_path EXCEPT ![t] =
                                write_set[t][NextIn(WriteKeys(t), k)].insert]

\* lines 204-228: the search branch of find_write_nodes
FindWriteNode(t) ==
  /\ pc[t] = "find_write_nodes"
  /\ ~try_insert_path[t]
  /\ LET k == cur[t]
         v == btree[k]
     IN IF v # NULL THEN
          /\ NextWrite(t, k, Append(dbtuples[t],
                                    dbtuple_info(v, k, FALSE, write_set[t][k].r, FALSE)))
          /\ read_set' = [read_set EXCEPT ![t][v].holds_lock = @ \/ read_set[t][v].in]
          /\ absent_set' = [absent_set EXCEPT ![t][k] =
                              IF @.in THEN [in |-> TRUE, type |-> "ABSENT_REC_WRITE", tuple |-> v]
                              ELSE @]
        ELSE
          /\ pc' = [pc EXCEPT ![t] = "insert_path"]
          /\ UNCHANGED <<cur, try_insert_path, dbtuples, read_set, absent_set>>
  /\ UNCHANGED <<sharedVars, txnVars, write_set, node_scan, absent_range_set,
                 commit_tid, doThrow, ret, result, thrown, callerVars, hist>>

\* a variant of the insert path that, when insert_if_absent fails, goes back
\* to retry with try_insert_path still set
InsertPath_retries_insert(t) ==
  /\ IF pc[t] = "insert_path" THEN TRUE
     ELSE pc[t] = "find_write_nodes" /\ try_insert_path[t]
  /\ LET k == cur[t]
     IN IF btree[k] # NULL THEN
          \* insert_if_absent failed: unlock, release, retry with the search
          /\ UNCHANGED <<try_insert_path, pc, sharedVars, cur, dbtuples, reason, ctxVars, hist>>
        ELSE
          \E tuple \in FreeIds :
            /\ tuples' = [tuples EXCEPT ![tuple] =
                            [alloc_first(write_set[t][k].r) EXCEPT !.lock = t]]
            /\ btree' = [btree EXCEPT ![k] = tuple]
            /\ node_version' = node_version + 1
            /\ UNCHANGED <<last_tid, write_set, absent_range_set>>
            /\ IF low_level_scan[t] /\ node_scan[t].in /\ node_scan[t].v # node_version
               THEN /\ AbortWith(t, "ABORT_REASON_WRITE_NODE_INTERFERENCE")
                    /\ UNCHANGED <<try_insert_path, dbtuples, read_set, absent_set, node_scan>>
               ELSE /\ node_scan' = [node_scan EXCEPT ![t].v =
                                       IF low_level_scan[t] /\ node_scan[t].in
                                       THEN @ + 1 ELSE @]
                    /\ NextWrite(t, k, Append(dbtuples[t],
                                   dbtuple_info(tuple, k, TRUE, write_set[t][k].r, TRUE)))
                    /\ read_set' = [read_set EXCEPT ![t][tuple].holds_lock =
                                      @ \/ read_set[t][tuple].in]
                    /\ absent_set' = [absent_set EXCEPT ![t][k] =
                                        IF @.in
                                        THEN [in |-> TRUE, type |-> "ABSENT_REC_INSERT",
                                              tuple |-> tuple]
                                        ELSE @]
                    /\ UNCHANGED <<reason, hist>>
  /\ UNCHANGED <<state, low_level_scan, snapshot_tid_t, commit_tid, doThrow, ret,
                 result, thrown, callerVars>>

\* a variant of the insert path without the bump of line 261
InsertPath_no_bump(t) ==
  /\ IF pc[t] = "insert_path" THEN TRUE
     ELSE pc[t] = "find_write_nodes" /\ try_insert_path[t]
  /\ LET k == cur[t]
     IN IF btree[k] # NULL THEN
          \* insert_if_absent failed: unlock, release, retry with the search
          /\ try_insert_path' = [try_insert_path EXCEPT ![t] = FALSE]
          /\ pc' = [pc EXCEPT ![t] = "find_write_nodes"]
          /\ UNCHANGED <<sharedVars, cur, dbtuples, reason, ctxVars, hist>>
        ELSE
          \E tuple \in FreeIds :
            /\ tuples' = [tuples EXCEPT ![tuple] =
                            [alloc_first(write_set[t][k].r) EXCEPT !.lock = t]]
            /\ btree' = [btree EXCEPT ![k] = tuple]
            /\ node_version' = node_version + 1
            /\ UNCHANGED <<last_tid, write_set, absent_range_set>>
            /\ IF low_level_scan[t] /\ node_scan[t].in /\ node_scan[t].v # node_version
               THEN /\ AbortWith(t, "ABORT_REASON_WRITE_NODE_INTERFERENCE")
                    /\ UNCHANGED <<try_insert_path, dbtuples, read_set, absent_set, node_scan>>
               ELSE /\ UNCHANGED node_scan
                    /\ NextWrite(t, k, Append(dbtuples[t],
                                   dbtuple_info(tuple, k, TRUE, write_set[t][k].r, TRUE)))
                    /\ read_set' = [read_set EXCEPT ![t][tuple].holds_lock =
                                      @ \/ read_set[t][tuple].in]
                    /\ absent_set' = [absent_set EXCEPT ![t][k] =
                                        IF @.in
                                        THEN [in |-> TRUE, type |-> "ABSENT_REC_INSERT",
                                              tuple |-> tuple]
                                        ELSE @]
                    /\ UNCHANGED <<reason, hist>>
  /\ UNCHANGED <<state, low_level_scan, snapshot_tid_t, commit_tid, doThrow, ret,
                 result, thrown, callerVars>>

\* lines 229-285: allocate a locked tuple holding the payload and try
\* insert_if_absent; the leaf node reports the version it had before the insert
InsertPath(t) ==
  /\ IF pc[t] = "insert_path" THEN TRUE
     ELSE pc[t] = "find_write_nodes" /\ try_insert_path[t]
  /\ LET k == cur[t]
     IN IF btree[k] # NULL THEN
          \* insert_if_absent failed: unlock, release, retry with the search
          /\ try_insert_path' = [try_insert_path EXCEPT ![t] = FALSE]
          /\ pc' = [pc EXCEPT ![t] = "find_write_nodes"]
          /\ UNCHANGED <<sharedVars, cur, dbtuples, reason, ctxVars, hist>>
        ELSE
          \E tuple \in FreeIds :
            /\ tuples' = [tuples EXCEPT ![tuple] =
                            [alloc_first(write_set[t][k].r) EXCEPT !.lock = t]]
            /\ btree' = [btree EXCEPT ![k] = tuple]
            /\ node_version' = node_version + 1
            /\ UNCHANGED <<last_tid, write_set, absent_range_set>>
            /\ IF low_level_scan[t] /\ node_scan[t].in /\ node_scan[t].v # node_version
               THEN /\ AbortWith(t, "ABORT_REASON_WRITE_NODE_INTERFERENCE")
                    /\ UNCHANGED <<try_insert_path, dbtuples, read_set, absent_set, node_scan>>
               ELSE /\ node_scan' = [node_scan EXCEPT ![t].v =
                                       IF low_level_scan[t] /\ node_scan[t].in
                                       THEN @ + 1 ELSE @]
                    /\ NextWrite(t, k, Append(dbtuples[t],
                                   dbtuple_info(tuple, k, TRUE, write_set[t][k].r, TRUE)))
                    /\ read_set' = [read_set EXCEPT ![t][tuple].holds_lock =
                                      @ \/ read_set[t][tuple].in]
                    /\ absent_set' = [absent_set EXCEPT ![t][k] =
                                        IF @.in
                                        THEN [in |-> TRUE, type |-> "ABSENT_REC_INSERT",
                                              tuple |-> tuple]
                                        ELSE @]
                    /\ UNCHANGED <<reason, hist>>
  /\ UNCHANGED <<state, low_level_scan, snapshot_tid_t, commit_tid, doThrow, ret,
                 result, thrown, callerVars>>

\* lines 298-314: take the next lock of the sorted list, spinning while
\* another transaction holds it, then look at what was locked
\* variants of the check of lines 307-309: one that forgets the LATEST test,
\* one that loses its negation
write_lock_conflict_no_latest(t, tp) ==
  IsDeleting(tp) \/ ~can_read_tid(t, tuples[tp].version)

write_lock_conflict_inverted(t, tp) ==
  IsDeleting(tp) \/ IsLatest(tp) \/ ~can_read_tid(t, tuples[tp].version)

\* lines 307-309: what the lock loop finds wrong with a tuple it just locked
write_lock_conflict(t, tp) ==
  IsDeleting(tp) \/ ~IsLatest(tp) \/ ~can_read_tid(t, tuples[tp].version)

LockWriteNode(t) ==
  /\ pc[t] = "lock_write_nodes"
  /\ LET i == cur[t]
         tp == dbtuples[t][i].tuple
     IN /\ tuples[tp].lock = NULL
        /\ tuples' = [tuples EXCEPT ![tp].lock = t]
        /\ dbtuples' = [dbtuples EXCEPT ![t][i].locked = TRUE]
        /\ IF write_lock_conflict(t, tp)
           THEN AbortWith(t, "ABORT_REASON_WRITE_NODE_INTERFERENCE")
           ELSE /\ Goto(t, IF NextUnlocked(dbtuples[t], i + 1) = NULL
                           THEN [pc |-> "gen_commit_tid", cur |-> 0]
                           ELSE [pc |-> "lock_write_nodes",
                                 cur |-> NextUnlocked(dbtuples[t], i + 1)])
                /\ UNCHANGED <<reason, hist>>
  /\ UNCHANGED <<btree, node_version, last_tid, state, low_level_scan, snapshot_tid_t,
                 ctxVars, try_insert_path, commit_tid, doThrow, ret, result, thrown, callerVars>>

\* a variant of gen_commit_tid that hands out the last minted tid again
GenCommitTid_reuses_tid(t) ==
  /\ pc[t] = "gen_commit_tid"
  /\ last_tid' = last_tid
  /\ commit_tid' = [commit_tid EXCEPT ![t] = [first |-> TRUE, second |-> last_tid]]
  /\ Goto(t, NextStage(t, 1, dbtuples[t]))
  /\ UNCHANGED <<tuples, btree, node_version, txnVars, ctxVars, try_insert_path,
                 dbtuples, doThrow, ret, result, thrown, callerVars, hist>>

\* lines 315-316: Protocol::gen_commit_tid, called with every write lock held
GenCommitTid(t) ==
  /\ pc[t] = "gen_commit_tid"
  /\ last_tid' = last_tid + 1
  /\ commit_tid' = [commit_tid EXCEPT ![t] = [first |-> TRUE, second |-> last_tid + 1]]
  /\ Goto(t, NextStage(t, 1, dbtuples[t]))
  /\ UNCHANGED <<tuples, btree, node_version, txnVars, ctxVars, try_insert_path,
                 dbtuples, doThrow, ret, result, thrown, callerVars, hist>>


\* a variant of the check of lines 340-342 that forgets the recorded tid
read_entry_ok_latest_only(t, tuple) == tuples[tuple].latest

\* lines 340-342: a tuple this transaction locked is read directly, any
\* other through the stable (retrying) read
read_entry_ok(t, tuple) ==
  IF read_set[t][tuple].holds_lock
  THEN is_latest_version(tuple, read_set[t][tuple].t)
  ELSE stable_is_latest_version(tuple, read_set[t][tuple].t)

\* lines 331-353: one entry of the read set
ValidateReadSet(t) ==
  /\ pc[t] = "validate_read_set"
  /\ LET tuple == cur[t]
     IN IF read_entry_ok(t, tuple)
        THEN /\ Goto(t, IF NextIn(ReadEntries(t), tuple) = NULL
                        THEN NextStage(t, 2, dbtuples[t])
                        ELSE [pc |-> "validate_read_set",
                              cur |-> NextIn(ReadEntries(t), tuple)])
             /\ UNCHANGED <<reason, hist>>
        ELSE AbortWith(t, "ABORT_REASON_READ_NODE_INTEREFERENCE")
  /\ UNCHANGED <<sharedVars, state, low_level_scan, snapshot_tid_t, ctxVars,
                 try_insert_path, dbtuples, commit_tid, doThrow, ret, result, thrown, callerVars>>

\* a variant of lines 361-385 that takes any tuple found for a READ entry to
\* be a tombstone
absent_entry_ok_found(t, k) ==
  LET e == absent_set[t][k]
  IN IF e.type = "ABSENT_REC_INSERT" THEN TRUE
     ELSE IF e.type = "ABSENT_REC_WRITE" THEN latest_value_is_nil(e.tuple)
     ELSE TRUE

\* lines 361-385: does the absent-set entry of key k still hold
absent_entry_ok(t, k) ==
  LET e == absent_set[t][k]
  IN IF e.type = "ABSENT_REC_INSERT" THEN TRUE
     ELSE IF e.type = "ABSENT_REC_WRITE" THEN latest_value_is_nil(e.tuple)
     ELSE IF btree[k] = NULL THEN TRUE
     ELSE stable_latest_value_is_nil(btree[k])

\* lines 356-389: one entry of the absent set
ValidateAbsentSet(t) ==
  /\ pc[t] = "validate_absent_set"
  /\ LET k == cur[t]
     IN IF absent_entry_ok(t, k)
        THEN /\ Goto(t, IF NextIn(AbsentKeys(t), k) = NULL
                        THEN NextStage(t, 3, dbtuples[t])
                        ELSE [pc |-> "validate_absent_set",
                              cur |-> NextIn(AbsentKeys(t), k)])
             /\ UNCHANGED <<reason, hist>>
        ELSE AbortWith(t, "ABORT_REASON_READ_ABSENCE_INTEREFERENCE")
  /\ UNCHANGED <<sharedVars, state, low_level_scan, snapshot_tid_t, ctxVars,
                 try_insert_path, dbtuples, commit_tid, doThrow, ret, result, thrown, callerVars>>

\* lines 392-407: the scanned leaf node must still carry the recorded version
\* a variant of the comparison of line 400 that accepts a newer version
node_scan_ok_not_older(t) == node_version >= node_scan[t].v

\* lines 399-400
node_scan_ok(t) == node_version = node_scan[t].v

ValidateNodeScan(t) ==
  /\ pc[t] = "validate_node_scan"
  /\ IF ~node_scan_ok(t)
     THEN AbortWith(t, "ABORT_REASON_NODE_SCAN_READ_VERSION_CHANGED")
     ELSE /\ Goto(t, NextStage(t, 4, dbtuples[t]))
          /\ UNCHANGED <<reason, hist>>
  /\ UNCHANGED <<sharedVars, state, low_level_scan, snapshot_tid_t, ctxVars,
                 try_insert_path, dbtuples, commit_tid, doThrow, ret, result, thrown, callerVars>>

\* a variant of the callback that does not pass over the keys of the
\* transaction's own write set
absent_range_failed_own_writes(t, range) ==
  \E k \in Keys :
    /\ key_in_range(range, k)
    /\ btree[k] # NULL
    /\ ~stable_latest_value_is_nil(btree[k])

\* absent_range_validation_callback over search_range_call(a, b): fails on a
\* key outside this transaction's write set whose latest value is not nil
absent_range_failed(t, range) ==
  \E k \in Keys :
    /\ key_in_range(range, k)
    /\ btree[k] # NULL
    /\ ~write_set[t][k].in
    /\ ~stable_latest_value_is_nil(btree[k])

\* lines 409-422: one absent range
ValidateAbsentRange(t) ==
  /\ pc[t] = "validate_absent_range"
  /\ LET i == cur[t]
     IN IF absent_range_failed(t, absent_range_set[t][i])
        THEN AbortWith(t, "ABORT_REASON_WRITE_NODE_INTERFERENCE")
        ELSE /\ Goto(t, IF i = Len(absent_range_set[t])
                        THEN NextStage(t, 4, dbtuples[t])
                        ELSE [pc |-> "validate_absent_range", cur |-> i + 1])
             /\ UNCHANGED <<reason, hist>>
  /\ UNCHANGED <<sharedVars, state, low_level_scan, snapshot_tid_t, ctxVars,
                 try_insert_path, dbtuples, commit_tid, doThrow, ret, result, thrown, callerVars>>

AfterWrite(t, i) ==
  IF i = Len(dbtuples[t]) THEN [pc |-> "finish", cur |-> 0]
  ELSE [pc |-> "write_records", cur |-> i + 1]

\* a variant of write_records whose write_record_at leaves LATEST on the
\* tuple it replaces
WriteRecord_keeps_latest(t) ==
  /\ pc[t] = "write_records"
  /\ LET i == cur[t]
         e == dbtuples[t][i]
         tid == commit_tid[t].second
     IN IF e.insert THEN
          /\ tuples' = [tuples EXCEPT ![e.tuple].version = tid, ![e.tuple].lock = NULL]
          /\ Goto(t, AfterWrite(t, i))
          /\ UNCHANGED ret
        ELSE
          \E replace \in env.replaces :
            IF replace /\ Cardinality(FreeIds) > Cardinality({k \in Keys : btree[k] = NULL}) THEN
              \E rep \in FreeIds :
                /\ tuples' = [tuples EXCEPT
                                ![rep] = [alloc |-> TRUE, version |-> tid, latest |-> TRUE,
                                          deleting |-> FALSE, lock |-> t, val |-> e.r,
                                          prev |-> e.tuple]]
                /\ ret' = [ret EXCEPT ![t] = rep]
                /\ pc' = [pc EXCEPT ![t] = "write_swap"]
                /\ UNCHANGED cur
            ELSE
              /\ tuples' = [tuples EXCEPT ![e.tuple].version = tid,
                                          ![e.tuple].val = e.r,
                                          ![e.tuple].lock = NULL]
              /\ Goto(t, AfterWrite(t, i))
              /\ UNCHANGED ret
  /\ UNCHANGED <<btree, node_version, last_tid, txnVars, ctxVars, try_insert_path,
                 dbtuples, commit_tid, doThrow, result, thrown, callerVars, hist>>
\* a variant of write_records whose lock_guard of line 449 does not lock the
\* replacement
WriteRecord_unguarded(t) ==
  /\ pc[t] = "write_records"
  /\ LET i == cur[t]
         e == dbtuples[t][i]
         tid == commit_tid[t].second
     IN IF e.insert THEN
          /\ tuples' = [tuples EXCEPT ![e.tuple].version = tid, ![e.tuple].lock = NULL]
          /\ Goto(t, AfterWrite(t, i))
          /\ UNCHANGED ret
        ELSE
          \E replace \in env.replaces :
            IF replace /\ Cardinality(FreeIds) > Cardinality({k \in Keys : btree[k] = NULL}) THEN
              \E rep \in FreeIds :
                /\ tuples' = [tuples EXCEPT
                                ![rep] = [alloc |-> TRUE, version |-> tid, latest |-> TRUE,
                                          deleting |-> FALSE, lock |-> NULL, val |-> e.r,
                                          prev |-> e.tuple],
                                ![e.tuple].latest = FALSE]
                /\ ret' = [ret EXCEPT ![t] = rep]
                /\ pc' = [pc EXCEPT ![t] = "write_swap"]
                /\ UNCHANGED cur
            ELSE
              /\ tuples' = [tuples EXCEPT ![e.tuple].version = tid,
                                          ![e.tuple].val = e.r,
                                          ![e.tuple].lock = NULL]
              /\ Goto(t, AfterWrite(t, i))
              /\ UNCHANGED ret
  /\ UNCHANGED <<btree, node_version, last_tid, txnVars, ctxVars, try_insert_path,
                 dbtuples, commit_tid, doThrow, result, thrown, callerVars, hist>>

\* lines 434-449 and 469: stamp an inserted tuple, or write_record_at, which
\* overwrites in place or hands back a replacement head linked to the old one
WriteRecord(t) ==
  /\ pc[t] = "write_records"
  /\ LET i == cur[t]
         e == dbtuples[t][i]
         tid == commit_tid[t].second
     IN IF e.insert THEN
          /\ tuples' = [tuples EXCEPT ![e.tuple].version = tid, ![e.tuple].lock = NULL]
          /\ Goto(t, AfterWrite(t, i))
          /\ UNCHANGED ret
        ELSE
          \E replace \in env.replaces :
            IF replace /\ Cardinality(FreeIds) > Cardinality({k \in Keys : btree[k] = NULL}) THEN
              \E rep \in FreeIds :
                /\ tuples' = [tuples EXCEPT
                                ![rep] = [alloc |-> TRUE, version |-> tid, latest |-> TRUE,
                                          deleting |-> FALSE, lock |-> t, val |-> e.r,
                                          prev |-> e.tuple],
                                ![e.tuple].latest = FALSE]
                /\ ret' = [ret EXCEPT ![t] = rep]
                /\ pc' = [pc EXCEPT ![t] = "write_swap"]
                /\ UNCHANGED cur
            ELSE
              /\ tuples' = [tuples EXCEPT ![e.tuple].version = tid,
                                          ![e.tuple].val = e.r,
                                          ![e.tuple].lock = NULL]
              /\ Goto(t, AfterWrite(t, i))
              /\ UNCHANGED ret
  /\ UNCHANGED <<btree, node_version, last_tid, txnVars, ctxVars, try_insert_path,
                 dbtuples, commit_tid, doThrow, result, thrown, callerVars, hist>>

\* lines 450-469: swap the replacement into the index, release it and the
\* tuple it replaces
WriteSwap(t) ==
  /\ pc[t] = "write_swap"
  /\ LET i == cur[t]
         e == dbtuples[t][i]
     IN /\ btree' = [btree EXCEPT ![e.key] = ret[t]]
        /\ tuples' = [tuples EXCEPT ![ret[t]].lock = NULL, ![e.tuple].lock = NULL]
        /\ Goto(t, AfterWrite(t, i))
  /\ ret' = [ret EXCEPT ![t] = NULL]
  /\ UNCHANGED <<node_version, last_tid, txnVars, ctxVars, try_insert_path, dbtuples,
                 commit_tid, doThrow, result, thrown, callerVars, hist>>

\* a variant of the hook that records nothing
on_tid_finish_unrecorded(h, t, tid) == h

\* Protocol::on_tid_finish(tid), as the record of the tids it was called with
on_tid_finish(h, t, tid) == [h EXCEPT ![t].tid_finish = Append(@, tid)]

\* lines 474-478
Finish(t) ==
  /\ pc[t] = "finish"
  /\ state' = [state EXCEPT ![t] = "TXN_COMMITED"]
  /\ result' = [result EXCEPT ![t] = "true"]
  /\ thrown' = [thrown EXCEPT ![t] = "none"]
  /\ pc' = [pc EXCEPT ![t] = "idle"]
  /\ hist' = IF commit_tid[t].first
             THEN on_tid_finish(hist, t, commit_tid[t].second) ELSE hist
  /\ UNCHANGED <<sharedVars, reason, low_level_scan, snapshot_tid_t, ctxVars, cur,
                 try_insert_path, dbtuples, commit_tid, doThrow, ret, callerVars>>

\* a variant of do_abort without the unlock loop of lines 486-491
DoAbort_unlocks_nothing(t) ==
  /\ pc[t] = "do_abort"
  /\ state' = [state EXCEPT ![t] = "TXN_ABRT"]
  /\ result' = [result EXCEPT ![t] = IF doThrow[t] THEN "throw" ELSE "false"]
  /\ thrown' = [thrown EXCEPT ![t] = IF doThrow[t] THEN reason[t] ELSE "none"]
  /\ pc' = [pc EXCEPT ![t] = "idle"]
  /\ hist' = IF commit_tid[t].first
             THEN on_tid_finish(hist, t, commit_tid[t].second) ELSE hist
  /\ UNCHANGED <<sharedVars, reason, low_level_scan, snapshot_tid_t,
                 ctxVars, cur, try_insert_path, dbtuples, commit_tid, doThrow, ret,
                 callerVars>>

\* a variant of do_abort that returns false whatever doThrow says
DoAbort_returns_false(t) ==
  /\ pc[t] = "do_abort"
  /\ tuples' = [i \in TupleIds |->
                  IF \E j \in 1..Len(dbtuples[t]) :
                       dbtuples[t][j].tuple = i /\ dbtuples[t][j].locked
                  THEN [tuples[i] EXCEPT !.lock = NULL] ELSE tuples[i]]
  /\ state' = [state EXCEPT ![t] = "TXN_ABRT"]
  /\ result' = [result EXCEPT ![t] = "false"]
  /\ thrown' = [thrown EXCEPT ![t] = "none"]
  /\ pc' = [pc EXCEPT ![t] = "idle"]
  /\ hist' = IF commit_tid[t].first
             THEN on_tid_finish(hist, t, commit_tid[t].second) ELSE hist
  /\ UNCHANGED <<btree, node_version, last_tid, reason, low_level_scan, snapshot_tid_t,
                 ctxVars, cur, try_insert_path, dbtuples, commit_tid, doThrow, ret,
                 callerVars>>

\* lines 480-498: unlock what the list says is locked
DoAbort(t) ==
  /\ pc[t] = "do_abort"
  /\ tuples' = [i \in TupleIds |->
                  IF \E j \in 1..Len(dbtuples[t]) :
                       dbtuples[t][j].tuple = i /\ dbtuples[t][j].locked
                  THEN [tuples[i] EXCEPT !.lock = NULL] ELSE tuples[i]]
  /\ state' = [state EXCEPT ![t] = "TXN_ABRT"]
  /\ result' = [result EXCEPT ![t] = IF doThrow[t] THEN "throw" ELSE "false"]
  /\ thrown' = [thrown EXCEPT ![t] = IF doThrow[t] THEN reason[t] ELSE "none"]
  /\ pc' = [pc EXCEPT ![t] = "idle"]
  /\ hist' = IF commit_tid[t].first
             THEN on_tid_finish(hist, t, commit_tid[t].second) ELSE hist
  /\ UNCHANGED <<btree, node_version, last_tid, reason, low_level_scan, snapshot_tid_t,
                 ctxVars, cur, try_insert_path, dbtuples, commit_tid, doThrow, ret,
                 callerVars>>

UNUSABLE == "transaction_unusable_exception"

\* a variant of abort_impl without the switch on the state
abort_impl_no_switch(t, r) ==
  /\ pc[t] = "idle"
  /\ state[t] # "NOT_STARTED"
  /\ state' = [state EXCEPT ![t] = "TXN_ABRT"]
  /\ reason' = [reason EXCEPT ![t] = r]
  /\ thrown' = [thrown EXCEPT ![t] = "none"]
  /\ hist' = [hist EXCEPT ![t].last_abort = [was |-> state[t], with |-> r]]
  /\ UNCHANGED <<sharedVars, low_level_scan, snapshot_tid_t, ctxVars, pc, cur,
                 try_insert_path, dbtuples, commit_tid, doThrow, ret, result, callerVars>>

\* a variant of abort_impl that stores the reason before the switch
abort_impl_reason_first(t, r) ==
  /\ pc[t] = "idle"
  /\ state[t] # "NOT_STARTED"
  /\ reason' = [reason EXCEPT ![t] = r]
  /\ IF state[t] = "TXN_COMMITED"
     THEN /\ thrown' = [thrown EXCEPT ![t] = UNUSABLE]
          /\ UNCHANGED state
     ELSE /\ state' = [state EXCEPT ![t] = "TXN_ABRT"]
          /\ thrown' = [thrown EXCEPT ![t] = "none"]
  /\ hist' = [hist EXCEPT ![t].last_abort = [was |-> state[t], with |-> r]]
  /\ UNCHANGED <<sharedVars, low_level_scan, snapshot_tid_t, ctxVars, pc, cur,
                 try_insert_path, dbtuples, commit_tid, doThrow, ret, result, callerVars>>

\* abort_impl(reason), lines 34-51: returns at once on TXN_ABRT, throws on
\* TXN_COMMITED, else stores the state and the reason
abort_impl(t, r) ==
  /\ pc[t] = "idle"
  /\ state[t] # "NOT_STARTED"
  /\ IF state[t] = "TXN_ABRT"
     THEN /\ thrown' = [thrown EXCEPT ![t] = "none"]
          /\ UNCHANGED <<state, reason>>
     ELSE IF state[t] = "TXN_COMMITED"
     THEN /\ thrown' = [thrown EXCEPT ![t] = UNUSABLE]
          /\ UNCHANGED <<state, reason>>
     ELSE /\ state' = [state EXCEPT ![t] = "TXN_ABRT"]
          /\ reason' = [reason EXCEPT ![t] = r]
          /\ thrown' = [thrown EXCEPT ![t] = "none"]
  /\ hist' = [hist EXCEPT ![t].last_abort = [was |-> state[t], with |-> r]]
  /\ UNCHANGED <<sharedVars, low_level_scan, snapshot_tid_t, ctxVars, pc, cur,
                 try_insert_path, dbtuples, commit_tid, doThrow, ret, result, callerVars>>

\* the reasons the callers of abort pass
AbortArgs == {"ABORT_REASON_USER", "ABORT_REASON_WRITE_NODE_INTERFERENCE"}

\* an operation of the transaction API on a terminal transaction
UseTerminal(t) ==
  /\ pc[t] = "idle"
  /\ state[t] \in {"TXN_COMMITED", "TXN_ABRT"}
  /\ thrown' = [thrown EXCEPT ![t] = UNUSABLE]
  /\ UNCHANGED <<sharedVars, txnVars, ctxVars, pc, cur, try_insert_path, dbtuples,
                 commit_tid, doThrow, ret, result, callerVars, hist>>

\* the steps of commit that every transaction can take
CommitSteps(t) ==
  \/ CommitCall(t)
  \/ FindWriteNode(t)
  \/ InsertPath(t)
  \/ LockWriteNode(t)
  \/ GenCommitTid(t)
  \/ WriteRecord(t)
  \/ WriteSwap(t)
  \/ Finish(t)
  \/ DoAbort(t)

Next ==
  \E t \in Txns :
    \/ Begin(t)
    \/ \E k \in Keys : Get(t, k)
    \/ \E k \in Keys, kind \in {"put", "insert", "remove"} : Write(t, kind, k)
    \/ \E op \in ScanOps : Scan(t, op[2], op[3], op[4])
    \/ CommitSteps(t)
    \/ ValidateReadSet(t)
    \/ ValidateAbsentSet(t)
    \/ ValidateNodeScan(t)
    \/ ValidateAbsentRange(t)

DefaultEnv == [throws |-> {FALSE}, replaces |-> BOOLEAN, txns |-> Txns]

Budget(n) == [t \in Txns |-> n]

Init ==
  InitWith([t \in Txns |-> AllOps], Budget(MaxOps), BOOLEAN, BOOLEAN, AllStores, DefaultEnv)

Spec == Init /\ [][Next]_vars

\* ------------------------------------------------------------- scenarios
Ops(kinds, keys) == {o \in PointOps : o[1] \in kinds /\ o[2] \in keys}
Scans == {o \in ScanOps : ~o[3] \/ o[2] < o[4]}
Pair == [throws |-> {FALSE}, replaces |-> BOOLEAN, txns |-> {1, 2}]
\* the first transaction may issue MaxOps operations, the others one
Lead == [t \in Txns |-> IF t = 1 THEN MaxOps ELSE 1]

\* write-only transactions: two writers over all the keys
WriteNext ==
  \E t \in Txns :
    \/ Begin(t)
    \/ \E k \in Keys, kind \in {"put", "insert", "remove"} : Write(t, kind, k)
    \/ CommitSteps(t)

InitWriters ==
  InitWith([t \in Txns |-> IF t = 1 THEN Ops({"put"}, Keys) \cup Ops({"insert"}, {NumKeys})
                           ELSE Ops({"put"}, Keys) \cup Ops({"remove"}, {1})],
           Budget(MaxOps), {FALSE}, BOOLEAN, AllStores, Pair)

SpecWriters == InitWriters /\ [][WriteNext]_vars

\* find_write_nodes under fair scheduling: a thread inside Phase A, which
\* never waits, takes its next step
PhaseASteps(t) == FindWriteNode(t) \/ InsertPath(t)

InitPhaseA ==
  InitWith([t \in Txns |-> Ops({"put", "insert"}, Keys)],
           Lead, {FALSE}, {FALSE}, AllStores,
           [throws |-> {FALSE}, replaces |-> {TRUE}, txns |-> {1, 2}])

SpecPhaseA ==
  InitPhaseA /\ [][WriteNext]_vars /\ \A t \in Txns : WF_vars(PhaseASteps(t))

\* point operations: a reader-writer against a writer
PointNext ==
  \E t \in Txns :
    \/ Begin(t)
    \/ \E k \in Keys : Get(t, k)
    \/ \E k \in Keys, kind \in {"put", "insert", "remove"} : Write(t, kind, k)
    \/ CommitSteps(t)
    \/ ValidateReadSet(t)
    \/ ValidateAbsentSet(t)

InitPoint ==
  InitWith([t \in Txns |-> IF t = 1 THEN Ops({"get", "put"}, Keys)
                           ELSE Ops({"put"}, Keys) \cup Ops({"remove"}, {1})],
           Budget(MaxOps), {FALSE}, BOOLEAN, AllStores, Pair)

SpecPoint == InitPoint /\ [][PointNext]_vars

\* a writer, a second writer and a reader of one key
InitVisible ==
  InitWith([t \in Txns |-> IF t = 3 THEN Ops({"get"}, {1})
                           ELSE Ops({"put", "remove"}, {1})],
           Budget(1), {FALSE}, BOOLEAN, {s \in AllStores : \A k \in Keys \ {1} : s[k] = Nil},
           [throws |-> {FALSE}, replaces |-> BOOLEAN, txns |-> {1, 2, 3}])

SpecVisible == InitVisible /\ [][PointNext]_vars

\* every kind of operation and every validation stage, commit called with
\* either choice of doThrow
LifeNext ==
  \E t \in Txns :
    \/ Begin(t)
    \/ \E k \in Keys : Get(t, k)
    \/ \E k \in Keys, kind \in {"put", "insert", "remove"} : Write(t, kind, k)
    \/ \E op \in ScanOps : Scan(t, op[2], op[3], op[4])
    \/ CommitSteps(t)
    \/ ValidateReadSet(t)
    \/ ValidateAbsentSet(t)
    \/ ValidateNodeScan(t)
    \/ ValidateAbsentRange(t)

InitLife ==
  /\ InitWith([t \in Txns |-> IF t = 1
                               THEN Ops({"get", "put"}, {1}) \cup {<<"scan", 1, FALSE, NULL>>}
                               ELSE Ops({"put"}, {1}) \cup Ops({"insert"}, Keys)],
              Lead, BOOLEAN, {FALSE}, {s \in AllStores : \A k \in Keys \ {1} : s[k] = Nil},
              [throws |-> BOOLEAN, replaces |-> BOOLEAN, txns |-> {1, 2}])
  /\ \A t \in Txns \ {1} : ~low_level_scan[t]

SpecLife == InitLife /\ [][LifeNext]_vars

\* the same under fair scheduling of what follows the lock loop: validation,
\* write_records and the two ends of commit never wait
TidSteps(t) ==
  \/ ValidateReadSet(t)
  \/ ValidateAbsentSet(t)
  \/ ValidateNodeScan(t)
  \/ ValidateAbsentRange(t)
  \/ WriteRecord(t)
  \/ WriteSwap(t)
  \/ Finish(t)
  \/ DoAbort(t)

SpecTidFinish ==
  InitLife /\ [][LifeNext]_vars /\ \A t \in Txns : WF_vars(TidSteps(t))

\* calls on terminal transactions: point operations, commit with either choice
\* of doThrow, abort, and operations after the end
TerminalNext ==
  \E t \in Txns :
    \/ Begin(t)
    \/ \E k \in Keys : Get(t, k)
    \/ \E k \in Keys, kind \in {"put", "insert", "remove"} : Write(t, kind, k)
    \/ CommitSteps(t)
    \/ ValidateReadSet(t)
    \/ ValidateAbsentSet(t)
    \/ \E r \in AbortArgs : abort_impl(t, r)
    \/ UseTerminal(t)

InitTerminal ==
  InitWith([t \in Txns |-> IF t = 1 THEN Ops({"get", "put"}, {1})
                           ELSE Ops({"put"}, {1})],
           Lead, {FALSE}, {FALSE}, {s \in AllStores : \A k \in Keys \ {1} : s[k] = Nil},
           [throws |-> BOOLEAN, replaces |-> {TRUE}, txns |-> {1, 2}])

SpecTerminal == InitTerminal /\ [][TerminalNext]_vars

\* the local lookup alone: one transaction builds its sets with up to
\* MaxOps + 1 operations and calls local_search_str at any point
LocalSearch(t, k) ==
  /\ Usable(t)
  /\ hist' = [hist EXCEPT ![t].search =
                 [key |-> k, found |-> local_search_str(t, k).found,
                  v |-> local_search_str(t, k).v]]
  /\ UNCHANGED <<sharedVars, txnVars, ctxVars, commitVars, callerVars>>

LocalSearchNext ==
  \E t \in Txns :
    \/ Begin(t)
    \/ \E k \in Keys : Get(t, k)
    \/ \E k \in Keys, kind \in {"put", "insert", "remove"} : Write(t, kind, k)
    \/ \E op \in ScanOps : Scan(t, op[2], op[3], op[4])
    \/ \E k \in Keys : LocalSearch(t, k)

InitLocalSearch ==
  InitWith([t \in Txns |-> AllOps], Budget(MaxOps + 1), BOOLEAN, {FALSE}, AllStores,
           [throws |-> {FALSE}, replaces |-> {FALSE}, txns |-> {1}])

SpecLocalSearch == InitLocalSearch /\ [][LocalSearchNext]_vars

\* the absent ranges alone: any sequence of add_absent_range calls, with
\* bounded, empty and open-ended ranges over a wider key space
RangeKeys == 0..MaxRangeKey
AbsentRanges ==
  {r \in {key_range(a, TRUE, b) : a \in RangeKeys, b \in RangeKeys} : r.a <= r.b}
    \cup {key_range(a, FALSE, NULL) : a \in RangeKeys}

AddAbsentRange(t, range) ==
  /\ Usable(t)
  /\ ~low_level_scan[t]
  /\ absent_range_set' = [absent_range_set EXCEPT ![t] = add_absent_range(@, range)]
  /\ hist' = [hist EXCEPT ![t].added = [before |-> absent_range_set[t], range |-> range]]
  /\ UNCHANGED <<sharedVars, txnVars, read_set, absent_set, write_set, node_scan,
                 commitVars, callerVars>>

AbsentRangesNext ==
  \E t \in Txns :
    \/ Begin(t)
    \/ \E range \in AbsentRanges : AddAbsentRange(t, range)

InitAbsentRanges ==
  InitWith([t \in Txns |-> {}], Budget(0), {FALSE}, {FALSE},
           {s \in AllStores : \A k \in Keys : s[k] = Nil},
           [throws |-> {FALSE}, replaces |-> {FALSE}, txns |-> {1}])

SpecAbsentRanges == InitAbsentRanges /\ [][AbsentRangesNext]_vars

\* range scans guarded by absent ranges
RangeNext ==
  \E t \in Txns :
    \/ Begin(t)
    \/ \E k \in Keys, kind \in {"put", "insert", "remove"} : Write(t, kind, k)
    \/ \E op \in ScanOps : Scan(t, op[2], op[3], op[4])
    \/ CommitSteps(t)
    \/ ValidateReadSet(t)
    \/ ValidateAbsentRange(t)

InitRange ==
  InitWith([t \in Txns |-> IF t = 1 THEN Scans \cup Ops({"put"}, Keys)
                           ELSE Ops({"put", "insert"}, Keys)],
           Lead, {FALSE}, {FALSE}, AllStores, Pair)

SpecRange == InitRange /\ [][RangeNext]_vars

\* range scans guarded by leaf-node versions (TXN_FLAG_LOW_LEVEL_SCAN)
NodeNext ==
  \E t \in Txns :
    \/ Begin(t)
    \/ \E k \in Keys, kind \in {"put", "insert", "remove"} : Write(t, kind, k)
    \/ \E op \in ScanOps : Scan(t, op[2], op[3], op[4])
    \/ CommitSteps(t)
    \/ ValidateReadSet(t)
    \/ ValidateNodeScan(t)

InitNode ==
  InitWith([t \in Txns |-> IF t = 1 THEN Scans \cup Ops({"put"}, Keys)
                           ELSE Ops({"put", "insert"}, Keys)],
           Lead, {TRUE}, BOOLEAN, AllStores, Pair)

SpecNode == InitNode /\ [][NodeNext]_vars

\* a transaction that runs alone: the others run first, concurrently with
\* one another, and the solo transaction begins only when each of them has
\* not started or has returned from commit; none begins after it.  The solo
\* transaction issues every kind of operation in either phantom mode.
Solo == 1

Quiet(t) ==
  \A u \in Txns \ {t} : state[u] \in {"NOT_STARTED", "TXN_COMMITED", "TXN_ABRT"}

SoloNext ==
  \E t \in Txns :
    \/ (IF t = Solo THEN Quiet(t) ELSE state[Solo] = "NOT_STARTED") /\ Begin(t)
    \/ \E k \in Keys : Get(t, k)
    \/ \E k \in Keys, kind \in {"put", "insert", "remove"} : Write(t, kind, k)
    \/ \E op \in ScanOps : Scan(t, op[2], op[3], op[4])
    \/ CommitSteps(t)
    \/ ValidateReadSet(t)
    \/ ValidateAbsentSet(t)
    \/ ValidateNodeScan(t)
    \/ ValidateAbsentRange(t)

InitSolo ==
  /\ InitWith([t \in Txns |-> IF t = Solo THEN AllOps
                               ELSE IF t = 2
                               THEN Ops({"put"}, {1}) \cup {<<"scan", 1, FALSE, NULL>>}
                               ELSE Ops({"insert"}, {NumKeys})],
              [t \in Txns |-> IF t = 3 THEN 1 ELSE MaxOps],
              BOOLEAN, {FALSE}, {s \in AllStores : s[NumKeys] = Nil},
              [throws |-> {FALSE}, replaces |-> {TRUE}, txns |-> Txns])
  /\ low_level_scan[2]
  /\ \A t \in Txns \ {Solo, 2} : ~low_level_scan[t]

SpecSolo == InitSolo /\ [][SoloNext]_vars

\* ------------------------------------------------------------ properties
Returned(t) == pc[t] = "idle" /\ result[t] # "none"
Committed(t) == state[t] = "TXN_COMMITED"
Aborted(t) == state[t] = "TXN_ABRT"
HoldsLock(t) == \E i \in TupleIds : tuples[i].lock = t

\* t sits in the lock loop on a tuple that another transaction has locked
Spinning(t) ==
  /\ pc[t] = "lock_write_nodes"
  /\ tuples[dbtuples[t][cur[t]].tuple].lock \notin {NULL, t}
Holder(t) == tuples[dbtuples[t][cur[t]].tuple].lock

SharedKeys(t, u) == WriteKeys(t) \cap WriteKeys(u)
WNI == "ABORT_REASON_WRITE_NODE_INTERFERENCE"
RNI == "ABORT_REASON_READ_NODE_INTEREFERENCE"
RAI == "ABORT_REASON_READ_ABSENCE_INTEREFERENCE"
NSRVC == "ABORT_REASON_NODE_SCAN_READ_VERSION_CHANGED"

\* of the committed writers of k among S, the one with the largest commit tid
LastWriter(S, k) ==
  CHOOSE t \in S :
    /\ Committed(t) /\ write_set[t][k].in
    /\ \A u \in S : Committed(u) /\ write_set[u][k].in
                      => commit_tid[u].second <= commit_tid[t].second

\* two transactions whose write sets share a key, whose commits overlapped in
\* time and have both returned
ConcurrentWriters(t, u) ==
  /\ t # u
  /\ SharedKeys(t, u) # {}
  /\ u \in hist[t].concurrent
  /\ Returned(t) /\ Returned(u)

C7_NoLockCycle ==
  ~ \E S \in SUBSET Txns :
      /\ S # {}
      /\ \A t \in S : Spinning(t) /\ Holder(t) \in S

\* C8: a transaction whose commit has returned holds no tuple lock
C8_NoLockAfterReturn ==
  \A t \in Txns : Returned(t) => ~HoldsLock(t)

\* C10: a write-only transaction whose write set is disjoint from that of
\* every other transaction never waits for a lock, commits, and leaves its
\* values in the store (two such transactions both commit: T1 put(a,1),
\* T2 put(b,2) gives {a:1, b:2})
C10_DisjointWritersCommit ==
  \A t \in Txns :
    (\A u \in Txns \ {t} : SharedKeys(t, u) = {}) =>
      /\ ~Spinning(t)
      /\ Returned(t) =>
           /\ Committed(t)
           /\ \A k \in WriteKeys(t) : StoreValue(k) = write_set[t][k].r

C10_BothCommittedWitness ==
  /\ Returned(1) /\ Returned(2) /\ 2 \in hist[1].concurrent
  /\ WriteKeys(1) # {} /\ WriteKeys(2) # {} /\ SharedKeys(1, 2) = {}
  /\ Committed(1) /\ Committed(2)
  /\ \A k \in WriteKeys(1) : write_set[1][k].r = 1 /\ StoreValue(k) = 1
  /\ \A k \in WriteKeys(2) : write_set[2][k].r = 2 /\ StoreValue(k) = 2

\* line 290: no writes and a consistent snapshot, so commit validates nothing
ReadOnlyOnSnapshot(t) == snapshot_tid_t[t].first /\ WriteKeys(t) = {}

\* C3 as stated: a transaction that read x, after which another transaction
\* committed a write to x before it called commit, aborts with
\* READ_NODE_INTERFERENCE
C3_StaleReadAbortsRNI ==
  \A t \in Txns :
    (Returned(t) /\ hist[t].stale_read) => Aborted(t) /\ reason[t] = RNI

\* C3, amended: such a transaction, unless it is read-only on a consistent
\* snapshot, aborts: with READ_NODE_INTERFERENCE from the read-set check, or
\* before that from the lock loop with WRITE_NODE_INTERFERENCE
C3_StaleReadAborts ==
  \A t \in Txns :
    (Returned(t) /\ hist[t].stale_read /\ ~ReadOnlyOnSnapshot(t)) =>
      /\ Aborted(t)
      /\ IF hist[t].abort_pc = "validate_read_set" THEN reason[t] = RNI
         ELSE hist[t].abort_pc = "lock_write_nodes" /\ reason[t] = WNI

C3_StaleReadWitness ==
  /\ Returned(1) /\ hist[1].stale_read /\ Committed(2)
  /\ \E k \in WriteKeys(2) : obs[1][k] = LoadedValue
  /\ Aborted(1) /\ reason[1] = RNI

\* READ entry of the absent set under validation whose key is still missing
\* or shows a nil latest value: the step does not abort
AbsentEntryPasses(t) ==
  (/\ pc[t] = "validate_absent_set"
   /\ absent_set[t][cur[t]].type = "ABSENT_REC_READ"
   /\ IF btree[cur[t]] = NULL THEN TRUE ELSE latest_value_is_nil(btree[cur[t]]))
    => pc'[t] # "do_abort"

\* C4 as stated: a transaction that found y absent, after which another
\* transaction committed an insert of y with a value before it called commit,
\* aborts with READ_ABSENCE_INTERFERENCE; a READ entry whose key is missing or
\* nil at validation passes
C4_AbsenceAbortsRAI ==
  /\ [](\A t \in Txns :
          (Returned(t) /\ hist[t].absent_inserted) => Aborted(t) /\ reason[t] = RAI)
  /\ [][\A t \in Txns : AbsentEntryPasses(t)]_vars

\* C4, amended: such a transaction, unless it is read-only on a consistent
\* snapshot, aborts: with READ_ABSENCE_INTERFERENCE from the absent-set check,
\* or before that from the read-set check or the lock loop with their reasons;
\* a READ entry whose key is missing or nil at validation passes
C4_AbsenceAborts ==
  /\ [](\A t \in Txns :
          (Returned(t) /\ hist[t].absent_inserted /\ ~ReadOnlyOnSnapshot(t)) =>
            /\ Aborted(t)
            /\ IF hist[t].abort_pc = "validate_absent_set" THEN reason[t] = RAI
               ELSE IF hist[t].abort_pc = "validate_read_set" THEN reason[t] = RNI
               ELSE hist[t].abort_pc = "lock_write_nodes" /\ reason[t] = WNI)
  /\ [][\A t \in Txns : AbsentEntryPasses(t)]_vars

C4_AbsenceWitness ==
  /\ Returned(1) /\ hist[1].absent_inserted /\ Committed(2)
  /\ \E k \in WriteKeys(2) : obs[1][k] = Nil /\ absent_set[1][k].in
                               /\ write_set[2][k].r # Nil
  /\ Aborted(1) /\ reason[1] = RAI

\* C5: a transaction that scanned a range and saw it empty, after which
\* another transaction committed an insert into the range before it called
\* commit, does not commit
C5_RangePhantomAborts ==
  \A t \in Txns : (Returned(t) /\ hist[t].range_phantom) => Aborted(t)

\* C6 as stated: a transaction that recorded the leaf node's version in a
\* scan, after which a committed insert changed the node before it called commit,
\* aborts: with NODE_SCAN_READ_VERSION_CHANGED from the node-scan check, with
\* WRITE_NODE_INTERFERENCE from its own insert into the node
C6_NodePhantomAbortsAlways ==
  \A t \in Txns :
    (Returned(t) /\ hist[t].node_changed) =>
      /\ Aborted(t)
      /\ hist[t].abort_pc = "validate_node_scan" => reason[t] = NSRVC
      /\ hist[t].abort_pc \in {"find_write_nodes", "insert_path"} => reason[t] = WNI

\* C6, amended: the same of every transaction that is not read-only on a
\* consistent snapshot
C6_NodePhantomAborts ==
  \A t \in Txns :
    (Returned(t) /\ hist[t].node_changed /\ ~ReadOnlyOnSnapshot(t)) =>
      /\ Aborted(t)
      /\ hist[t].abort_pc = "validate_node_scan" => reason[t] = NSRVC
      /\ hist[t].abort_pc \in {"find_write_nodes", "insert_path"} => reason[t] = WNI

C6_NodePhantomWitness ==
  /\ Returned(1) /\ hist[1].node_changed /\ Committed(2)
  /\ \E k \in WriteKeys(2) : loaded[k] = Nil /\ write_set[2][k].r # Nil
  /\ Aborted(1) /\ hist[1].abort_pc = "validate_node_scan" /\ reason[1] = NSRVC

\* the writes of w are being installed or are installed
Installing(w) ==
  Committed(w) \/ pc[w] \in {"write_records", "write_swap", "finish"}

\* C9: a transaction that began after the commit of u returned observes, of
\* a key u wrote, the value u wrote or one written under a larger commit tid
C9_CommittedWritesVisible ==
  \A t \in Txns : \A u \in hist[t].began_after : \A k \in Keys :
    (write_set[u][k].in /\ obs[t][k] # NotObserved) =>
      \/ obs[t][k] = write_set[u][k].r
      \/ \E w \in Txns :
           /\ Installing(w) /\ write_set[w][k].in
           /\ commit_tid[w].second > commit_tid[u].second
           /\ obs[t][k] = write_set[w][k].r

C9_ReaderAfterWriterWitness ==
  \E k \in Keys :
    /\ 1 \in hist[3].began_after /\ 2 \notin hist[3].began_after
    /\ write_set[1][k].in /\ write_set[1][k].r = 1 /\ loaded[k] # Nil
    /\ ~Installing(2)
    /\ obs[3][k] = 1

\* C11: a transaction without writes on a consistent snapshot goes from the
\* commit call straight to the end: it takes no tuple lock, runs no
\* validation, mints no commit tid, never aborts, and its commit returns true
\* with state TXN_COMMITED, whatever was committed since it read
C11_ReadOnlySnapshotCommits ==
  \A t \in Txns :
    (ReadOnlyOnSnapshot(t) /\ state[t] # "NOT_STARTED") =>
      /\ pc[t] \in {"idle", "finish"}
      /\ ~HoldsLock(t)
      /\ ~commit_tid[t].first
      /\ hist[t].abort_pc = "none" /\ ~Aborted(t)
      /\ Returned(t) => Committed(t) /\ result[t] = "true" /\ thrown[t] = "none"

C11_StaleReaderCommitsWitness ==
  /\ ReadOnlyOnSnapshot(1) /\ ReadEntries(1) # {}
  /\ hist[1].stale_read /\ Committed(2)
  /\ Returned(1) /\ Committed(1) /\ result[1] = "true"

\* the reasons commit stores before it goes to do_abort
CommitAbortReasons == {WNI, RNI, RAI, NSRVC}

\* the step in which the commit of t returns
CommitReturns(t) == pc[t] # "idle" /\ pc'[t] = "idle"

\* C12: a commit of a transaction in TXN_EMBRYO or TXN_ACTIVE returns true
\* exactly when it leaves the state TXN_COMMITED; otherwise the state is
\* TXN_ABRT, the stored reason is one of the four interference reasons, and
\* commit returns false when doThrow is false and raises the abort exception
\* with that reason when it is true
C12_CommitOutcome ==
  [][\A t \in Txns :
       CommitReturns(t) =>
         /\ (result'[t] = "true") <=> (state'[t] = "TXN_COMMITED")
         /\ state'[t] = "TXN_COMMITED" => thrown'[t] = "none"
         /\ state'[t] # "TXN_COMMITED" =>
              /\ state'[t] = "TXN_ABRT"
              /\ reason'[t] \in CommitAbortReasons
              /\ IF doThrow[t]
                 THEN result'[t] = "throw" /\ thrown'[t] = reason'[t]
                 ELSE result'[t] = "false" /\ thrown'[t] = "none"]_vars

C12_ThrowAndTrueWitness ==
  /\ Returned(1) /\ Aborted(1) /\ doThrow[1]
  /\ result[1] = "throw" /\ thrown[1] = reason[1]
  /\ reason[1] \in {RNI, RAI, NSRVC}
  /\ Returned(2) /\ Committed(2) /\ result[2] = "true"

Terminal(t) == state[t] \in {"TXN_COMMITED", "TXN_ABRT"}

\* C13: commit on a terminal transaction leaves every tuple, lock, index
\* entry, the state and the reason as they are; on TXN_COMMITED it returns
\* true, on TXN_ABRT it returns false, or with doThrow raises the abort
\* exception carrying the stored reason
C13_TerminalCommit ==
  [][\A t \in Txns :
       (Terminal(t) /\ CommitCall(t)) =>
         /\ UNCHANGED <<tuples, btree, node_version, last_tid, state, reason>>
         /\ pc'[t] = "idle"
         /\ IF state[t] = "TXN_COMMITED"
            THEN result'[t] = "true" /\ thrown'[t] = "none"
            ELSE IF doThrow'[t]
            THEN result'[t] = "throw" /\ thrown'[t] = reason[t]
            ELSE result'[t] = "false" /\ thrown'[t] = "none"]_vars

\* a transaction ended by abort, on which no commit ever ran, whose commit
\* call raised the abort exception with the reason abort stored
C13_CommitAfterAbortWitness ==
  /\ Aborted(1) /\ hist[1].abort_pc = "none"
  /\ hist[1].last_abort.was \in {"TXN_EMBRYO", "TXN_ACTIVE"}
  /\ reason[1] = "ABORT_REASON_USER"
  /\ doThrow[1] /\ result[1] = "throw" /\ thrown[1] = "ABORT_REASON_USER"
  /\ Committed(2) /\ result[2] = "true"

\* C14: abort on a transaction that is already TXN_ABRT, whether an earlier
\* abort or a failed commit ended it, and whatever reason is passed, leaves
\* the state TXN_ABRT and the stored reason as they are and raises nothing
C14_AbortIdempotent ==
  [][\A t \in Txns : \A r \in AbortArgs :
       (Aborted(t) /\ abort_impl(t, r)) =>
         /\ state'[t] = "TXN_ABRT"
         /\ reason'[t] = reason[t]
         /\ thrown'[t] = "none"
         /\ UNCHANGED <<tuples, btree, node_version, last_tid>>]_vars

\* a transaction whose commit failed and on which abort was then called with
\* another reason
C14_AbortAfterFailedCommitWitness ==
  /\ Aborted(1) /\ hist[1].abort_pc # "none"
  /\ reason[1] \in {RNI, RAI}
  /\ hist[1].last_abort.was = "TXN_ABRT"
  /\ hist[1].last_abort.with \notin {reason[1], "ABORT_REASON_NONE"}
  /\ thrown[1] = "none"

\* C15 as stated: once TXN_COMMITED or TXN_ABRT the state and the reason stay,
\* and every call on a terminal transaction (commit, abort, an operation)
\* raises the unusable exception
C15_TerminalRaisesUnusable ==
  [][\A t \in Txns :
       Terminal(t) =>
         /\ state'[t] = state[t] /\ reason'[t] = reason[t]
         /\ (CommitCall(t) \/ UseTerminal(t) \/ \E r \in AbortArgs : abort_impl(t, r))
              => thrown'[t] = UNUSABLE]_vars

\* C15, amended: once TXN_COMMITED or TXN_ABRT the state and the reason stay;
\* abort on TXN_COMMITED and an operation on a terminal transaction raise the
\* unusable exception; commit on a terminal transaction and abort on TXN_ABRT
\* do not
C15_TerminalStable ==
  [][\A t \in Txns :
       Terminal(t) =>
         /\ state'[t] = state[t] /\ reason'[t] = reason[t]
         /\ UseTerminal(t) => thrown'[t] = UNUSABLE
         /\ (\E r \in AbortArgs : abort_impl(t, r))
              => thrown'[t] = IF Committed(t) THEN UNUSABLE ELSE "none"
         /\ CommitCall(t) => thrown'[t] # UNUSABLE]_vars

\* abort was called on a committed transaction
C15_AbortOnCommittedWitness ==
  /\ Committed(1) /\ WriteKeys(1) # {} /\ reason[1] = "ABORT_REASON_NONE"
  /\ hist[1].last_abort.was = "TXN_COMMITED"
  /\ thrown[1] = UNUSABLE

\* the keys the list covers, as key_in_absent_set answers
Covered(ars) == {k \in RangeKeys : key_in_absent_set(ars, k)}

\* C16: after any sequence of add_absent_range calls the list is sorted by
\* lower bound, its ranges are pairwise disjoint and coalesced (each upper
\* bound lies strictly below the next lower bound), none is empty, and only
\* the last may be open-ended
C16_AbsentRangesSortedDisjoint ==
  \A t \in Txns :
    LET ars == absent_range_set[t]
    IN /\ \A i \in 1..Len(ars) : ~is_empty_range(ars[i])
       /\ \A i \in 1..(Len(ars) - 1) :
            /\ ars[i].has_b
            /\ ars[i].a < ars[i + 1].a
            /\ ars[i].b < ars[i + 1].a

\* a list of three ranges, the last open-ended, reached by a call that merged
\* the first with its left neighbour
C16_MergedListWitness ==
  LET ars == absent_range_set[1]
  IN /\ Len(ars) = 3 /\ ~ars[3].has_b
     /\ Len(hist[1].added.before) = 3
     /\ hist[1].added.before[1].b = hist[1].added.range.a
     /\ ars[1].b = hist[1].added.range.b

\* C17: add_absent_range(r) makes the covered keys the union of the keys
\* covered before and the keys of r; an empty range changes nothing
C17_AddCoversUnion ==
  \A t \in Txns :
    LET before == hist[t].added.before
        r == hist[t].added.range
    IN /\ Covered(absent_range_set[t])
            = Covered(before) \cup {k \in RangeKeys : key_in_range(r, k)}
       /\ is_empty_range(r) => absent_range_set[t] = before

\* a call that bridged two ranges and left a third alone
C17_BridgeWitness ==
  LET before == hist[1].added.before
      r == hist[1].added.range
  IN /\ Len(before) = 3 /\ Len(absent_range_set[1]) = 2
     /\ r.has_b /\ before[1].a < r.a /\ r.a < before[1].b
     /\ before[2].a < r.b /\ r.b < before[2].b
     /\ Covered(absent_range_set[1]) # Covered(before)

\* C18: adding a range twice gives the list that adding it once gives, and
\* [0,5) then [3,8) added to the empty list give the single range [0,8)
C18_AddIdempotent ==
  /\ \A t \in Txns : \A r \in AbsentRanges :
       add_absent_range(add_absent_range(absent_range_set[t], r), r)
         = add_absent_range(absent_range_set[t], r)
  /\ add_absent_range(add_absent_range(<<>>, key_range(0, TRUE, 5)), key_range(3, TRUE, 8))
       = <<key_range(0, TRUE, 8)>>

\* the same range was added twice in a row to a list it overlapped
C18_AddedTwiceWitness ==
  LET before == hist[1].added.before
      r == hist[1].added.range
  IN /\ Len(before) = 2 /\ ~is_empty_range(r)
     /\ before = absent_range_set[1]
     /\ \E j \in 1..2 : before[j].a = r.a /\ before[j].has_b = r.has_b /\ before[j].b = r.b

\* the versions of key k: the chain from the index entry along prev, and a
\* replacement head linked to that chain but not yet swapped in
RECURSIVE ChainFrom(_)
ChainFrom(tp) == IF tp = NULL THEN {} ELSE {tp} \cup ChainFrom(tuples[tp].prev)

Versions(k) ==
  ChainFrom(btree[k])
    \cup {i \in TupleIds : tuples[i].alloc /\ btree[k] # NULL /\ btree[k] \in ChainFrom(i)}

LatestVersions(k) == {i \in Versions(k) : tuples[i].latest}

\* t is between write_record_at, which handed back a replacement head for
\* key k, and the swap of the index entry, with both tuples locked
Replacing(t, k) ==
  /\ pc[t] = "write_swap"
  /\ dbtuples[t][cur[t]].key = k
  /\ dbtuples[t][cur[t]].tuple = btree[k]
  /\ tuples[ret[t]].prev = btree[k]
  /\ tuples[ret[t]].lock = t /\ tuples[btree[k]].lock = t

\* C19 as stated: in every state, those between the steps of a commit that
\* replaces a head tuple included, at most one version of a key carries
\* LATEST and the tuple the index points to is that version
C19_IndexHeadIsLatest ==
  \A k \in Keys :
    /\ Cardinality(LatestVersions(k)) <= 1
    /\ btree[k] # NULL => tuples[btree[k]].latest

\* C19, amended: at most one version of a key carries LATEST, and the tuple
\* the index points to is that version except between write_record_at and the
\* swap of a replacement, when the index still points to the replaced tuple,
\* locked and no longer LATEST, and the replacement carries LATEST
C19_AtMostOneLatest ==
  \A k \in Keys :
    /\ Cardinality(LatestVersions(k)) <= 1
    /\ btree[k] # NULL =>
         IF \E t \in Txns : Replacing(t, k)
         THEN \A t \in Txns : Replacing(t, k) => LatestVersions(k) = {ret[t]}
         ELSE LatestVersions(k) = {btree[k]}

\* a key that a committed transaction wrote and whose head is being replaced
C19_ReplacingWitness ==
  \E k \in Keys :
    /\ Replacing(2, k)
    /\ Committed(1) /\ write_set[1][k].in
    /\ Cardinality(Versions(k)) = 2
    /\ ~tuples[btree[k]].latest
    /\ LatestVersions(k) = {ret[2]}

\* C20: once the commit of a transaction has returned with state TXN_ABRT,
\* no key shows the payload that transaction wanted to write
C20_AbortedWritesInvisible ==
  \A t \in Txns :
    (Returned(t) /\ Aborted(t)) =>
      \A k \in Keys : ~(write_set[t][k].in /\ write_set[t][k].r = t /\ StoreValue(k) = t)

\* the step in which t takes the lock of the tuple its lock loop stands at
LocksNext(t) ==
  pc[t] = "lock_write_nodes" /\ (pc'[t] # pc[t] \/ cur'[t] # cur[t])

\* C21: a tuple that the lock loop has locked and finds DELETING, not LATEST
\* or with a tid the transaction cannot read sends commit to do_abort with
\* WRITE_NODE_INTERFERENCE; no commit tid is minted, the step and the abort
\* change no tuple but for its lock, every tuple the transaction locked is
\* unlocked when commit returns, and a tuple it had not locked is untouched
C21_LockLoopAbort ==
  /\ [](\A t \in Txns :
          hist[t].abort_pc = "lock_write_nodes" =>
            /\ reason[t] = WNI
            /\ ~commit_tid[t].first
            /\ Returned(t) => Aborted(t) /\ ~HoldsLock(t))
  /\ [][\A t \in Txns :
          /\ LocksNext(t) =>
               LET tp == dbtuples[t][cur[t]].tuple
               IN /\ (pc'[t] = "do_abort") <=>
                       (\/ tuples[tp].deleting
                        \/ ~tuples[tp].latest
                        \/ (snapshot_tid_t[t].first
                              /\ tuples[tp].version > snapshot_tid_t[t].second))
                  /\ pc'[t] = "do_abort" => reason'[t] = WNI
                  /\ tuples' = [tuples EXCEPT ![tp].lock = t]
                  /\ UNCHANGED <<btree, last_tid, commit_tid>>
          /\ (pc[t] = "do_abort" /\ pc'[t] = "idle") =>
               /\ UNCHANGED <<btree, last_tid, commit_tid>>
               /\ \A i \in TupleIds :
                    IF tuples[i].lock = t
                    THEN tuples'[i] = [tuples[i] EXCEPT !.lock = NULL]
                    ELSE tuples'[i] = tuples[i]]_vars

\* the first tuple of the sorted list was found replaced: it is unlocked
\* again and the second was never locked
C21_FirstLockFailsWitness ==
  /\ Returned(1) /\ Aborted(1) /\ hist[1].abort_pc = "lock_write_nodes"
  /\ Committed(2)
  /\ Len(dbtuples[1]) = 2
  /\ dbtuples[1][1].locked /\ ~tuples[dbtuples[1][1].tuple].latest
  /\ ~dbtuples[1][2].locked
  /\ \A i \in TupleIds : tuples[i].lock = NULL

InPhaseA(t) == pc[t] \in {"find_write_nodes", "insert_path"}
PastPhaseA(t) ==
  pc[t] \in {"lock_write_nodes", "gen_commit_tid", "write_records", "write_swap", "finish"}

Entries(t, k) == {i \in 1..Len(dbtuples[t]) : dbtuples[t][i].key = k}

\* C22: the resolution of every write-set key ends; it leaves exactly one
\* entry for the key, whose tuple is a version of that key in the index; when
\* insert_if_absent fails the allocated tuple is given back, nothing enters
\* the list and the retry searches; no allocated tuple is left outside the
\* index
C22_PhaseAResolves ==
  /\ \A t \in Txns : \A k \in Keys :
       (InPhaseA(t) /\ cur[t] = k) ~> ~(InPhaseA(t) /\ cur[t] = k)
  /\ [](\A t \in Txns :
          /\ \A k \in Keys : Cardinality(Entries(t, k)) <= 1
          /\ PastPhaseA(t) => \A k \in WriteKeys(t) : Cardinality(Entries(t, k)) = 1
          /\ \A i \in 1..Len(dbtuples[t]) :
               /\ dbtuples[t][i].tuple \in Versions(dbtuples[t][i].key)
               /\ dbtuples[t][i].insert => dbtuples[t][i].locked)
  /\ [](\A i \in TupleIds : tuples[i].alloc => \E k \in Keys : i \in Versions(k))
  /\ [][\A t \in Txns :
          (/\ \/ pc[t] = "insert_path"
              \/ pc[t] = "find_write_nodes" /\ try_insert_path[t]
           /\ btree[cur[t]] # NULL
           /\ pc'[t] # pc[t] \/ try_insert_path'[t] # try_insert_path[t])
            => /\ pc'[t] = "find_write_nodes" /\ ~try_insert_path'[t]
               /\ cur'[t] = cur[t]
               /\ UNCHANGED <<tuples, btree, dbtuples>>]_vars

\* an insert that lost the race: the key was missing at first, the write
\* carries the insert hint, yet its entry is a searched one, the tuple the
\* other transaction inserted
C22_LostRaceWitness ==
  \E k \in Keys :
    /\ PastPhaseA(1) /\ write_set[1][k].in /\ write_set[1][k].insert
    /\ loaded[k] = Nil
    /\ \E i \in Entries(1, k) : \E j \in Entries(2, k) :
         /\ ~dbtuples[1][i].insert /\ dbtuples[2][j].insert
         /\ dbtuples[1][i].tuple = dbtuples[2][j].tuple
    /\ 2 \in hist[1].concurrent

OthersStill(t) ==
  \A u \in Txns \ {t} : pc'[u] = pc[u] /\ cur'[u] = cur[u] /\ dbtuples'[u] = dbtuples[u]

\* C24: with LOW_LEVEL_SCAN, when Phase A inserts a tuple into the leaf node
\* recorded in node_scan: if the version the insert reports differs from the
\* recorded one the commit goes to do_abort with WRITE_NODE_INTERFERENCE;
\* otherwise the recorded version grows by one and equals the node's version
\* after the insert.  Hence no step of the transaction itself breaks the
\* agreement of the recorded version with the node, and the node-scan check
\* of a transaction whose record agrees passes.
C24_OwnInsertBumpsNodeScan ==
  /\ [][\A t \in Txns :
          (/\ InsertPath(t)
           /\ btree[cur[t]] = NULL
           /\ low_level_scan[t] /\ node_scan[t].in)
            => IF node_scan[t].v # node_version
               THEN /\ pc'[t] = "do_abort"
                    /\ reason'[t] = WNI
                    /\ node_scan'[t] = node_scan[t]
               ELSE /\ pc'[t] # "do_abort"
                    /\ node_scan'[t].v = node_scan[t].v + 1
                    /\ node_scan'[t].v = node_version'
                    /\ node_version' = node_version + 1]_vars
  /\ [][\A t \in Txns :
          (/\ low_level_scan[t] /\ node_scan[t].in
           /\ node_scan[t].v = node_version
           /\ OthersStill(t))
            => node_scan'[t].v = node_version']_vars
  /\ [](\A t \in Txns :
          (pc[t] = "validate_node_scan" /\ node_scan[t].v = node_version)
            => node_scan_ok(t))

\* a transaction scanned the node, inserted a missing key into it, passed the
\* node-scan check and committed; nobody else touched the node
C24_ScanThenOwnInsertWitness ==
  /\ low_level_scan[1] /\ node_scan[1].in
  /\ Returned(1) /\ Committed(1)
  /\ state[2] = "NOT_STARTED"
  /\ \E i \in 1..Len(dbtuples[1]) : dbtuples[1][i].insert
  /\ node_scan[1].v = node_version
  /\ node_version > 0

\* C25: tuple versions only move forward.  A commit tid is minted with every
\* entry of the write list locked by the transaction and exceeds the tid on
\* each of those tuples; write_records stamps that tid on the tuple it writes
\* in place, inserts or allocates as the new head; the tid of a key's head
\* never decreases and grows whenever the head is written or replaced; along
\* prev the tid strictly decreases.
C25_TidsMoveForward ==
  /\ [](\A t \in Txns : pc[t] = "gen_commit_tid" =>
          \A i \in 1..Len(dbtuples[t]) :
            dbtuples[t][i].locked /\ tuples[dbtuples[t][i].tuple].lock = t)
  /\ [][\A t \in Txns : GenCommitTid(t) =>
          /\ commit_tid'[t].first
          /\ \A i \in 1..Len(dbtuples[t]) :
               commit_tid'[t].second > tuples[dbtuples[t][i].tuple].version]_vars
  /\ [][\A t \in Txns : WriteRecord(t) =>
          LET e == dbtuples[t][cur[t]]
              tid == commit_tid[t].second
          IN IF pc'[t] = "write_swap"
             THEN /\ tuples'[ret'[t]].version = tid
                  /\ tuples'[ret'[t]].prev = e.tuple
                  /\ tuples'[e.tuple].version = tuples[e.tuple].version
             ELSE tuples'[e.tuple].version = tid]_vars
  /\ [][\A k \in Keys : btree[k] # NULL =>
          /\ btree'[k] # NULL
          /\ tuples'[btree'[k]].version >= tuples[btree[k]].version
          /\ (btree'[k] # btree[k] \/ tuples'[btree'[k]].val # tuples[btree[k]].val)
               => tuples'[btree'[k]].version > tuples[btree[k]].version]_vars
  /\ [](\A i \in TupleIds : (tuples[i].alloc /\ tuples[i].prev # NULL) =>
          tuples[tuples[i].prev].version < tuples[i].version)

\* two commits wrote the same key one after the other: the head carries the
\* second commit tid and its prev the first
C25_TwoVersionsWitness ==
  \E k \in Keys :
    /\ Committed(1) /\ Committed(2)
    /\ write_set[1][k].in /\ write_set[2][k].in
    /\ btree[k] # NULL /\ tuples[btree[k]].prev # NULL
    /\ tuples[btree[k]].version = commit_tid[2].second
    /\ tuples[tuples[btree[k]].prev].version = commit_tid[1].second
    /\ commit_tid[1].second > MIN_TID

\* C26: on_tid_finish is called at most once per transaction and not before
\* the last step of commit; a commit that has returned called it exactly once,
\* with its commit tid, if it minted one, and not at all otherwise; when it is
\* called the transaction is terminal and holds no lock; and every commit that
\* minted a tid goes on to call it, on the success and on the abort path
C26_TidFinishOnce ==
  /\ [](\A t \in Txns :
          /\ Len(hist[t].tid_finish) <= 1
          /\ pc[t] # "idle" => hist[t].tid_finish = <<>>
          /\ Returned(t) =>
               hist[t].tid_finish =
                 IF commit_tid[t].first THEN <<commit_tid[t].second>> ELSE <<>>
          /\ hist[t].tid_finish # <<>> => Terminal(t) /\ ~HoldsLock(t))
  /\ \A t \in Txns :
       (pc[t] # "idle" /\ commit_tid[t].first)
         ~> (Returned(t) /\ hist[t].tid_finish = <<commit_tid[t].second>>)

\* a commit minted a tid, failed a validation and called on_tid_finish with
\* that tid from do_abort
C26_AbortAfterMintWitness ==
  /\ Returned(1) /\ Aborted(1)
  /\ hist[1].abort_pc \in {"validate_read_set", "validate_absent_set",
                            "validate_node_scan", "validate_absent_range"}
  /\ commit_tid[1].first /\ commit_tid[1].second > MIN_TID
  /\ hist[1].tid_finish = <<commit_tid[1].second>>

\* some absent range of t contains k
InAbsentRange(t, k) ==
  \E i \in 1..Len(absent_range_set[t]) : key_in_range(absent_range_set[t][i], k)

\* C27: the local lookup answers from the write set first, with the payload
\* recorded there (empty for a removed key), whether or not the key is also in
\* the absent set or in an absent range; else it reports the key absent when
\* the absent set holds it or, without LOW_LEVEL_SCAN only, an absent range
\* contains it; else it reports nothing found.  A get answered locally reads
\* nothing from the index.
C27_LocalLookupOrder ==
  /\ [][\A t \in Txns : \A k \in Keys : LocalSearch(t, k) =>
          hist'[t].search =
            IF write_set[t][k].in
            THEN [key |-> k, found |-> TRUE, v |-> write_set[t][k].r]
            ELSE IF absent_set[t][k].in \/ (~low_level_scan[t] /\ InAbsentRange(t, k))
            THEN [key |-> k, found |-> TRUE, v |-> Nil]
            ELSE [key |-> k, found |-> FALSE, v |-> Nil]]_vars
  /\ [][\A t \in Txns : \A k \in Keys :
          (Get(t, k) /\ (write_set[t][k].in \/ absent_set[t][k].in))
            => UNCHANGED <<ctxVars, obs>>]_vars
  /\ [](\A t \in Txns : low_level_scan[t] => absent_range_set[t] = <<>>)

\* a key that the transaction missed, found inside a scanned gap and then put
\* is looked up: the answer is the put payload
C27_WriteSetWinsWitness ==
  \E k \in Keys :
    /\ write_set[1][k].in /\ write_set[1][k].r = 1
    /\ absent_set[1][k].in
    /\ InAbsentRange(1, k)
    /\ hist[1].search = [key |-> k, found |-> TRUE, v |-> 1]

\* C28: when write_record_at has returned a replacement, the key is in the
\* index and its entry is the tuple this transaction found and locked, so
\* the value the swap puts out is that tuple (the INVARIANT of line 457); the
\* replacement is locked by the transaction during the swap, and the swap
\* leaves the replacement in the index with it and the replaced tuple
\* unlocked
C28_SwapFindsOriginal ==
  /\ [](\A t \in Txns : pc[t] = "write_swap" =>
          LET e == dbtuples[t][cur[t]]
          IN /\ ~e.insert /\ e.locked
             /\ btree[e.key] # NULL
             /\ btree[e.key] = e.tuple
             /\ tuples[e.tuple].lock = t
             /\ ret[t] # NULL /\ ret[t] # e.tuple
             /\ tuples[ret[t]].lock = t
             /\ tuples[ret[t]].prev = e.tuple)
  /\ [][\A t \in Txns : WriteSwap(t) =>
          LET e == dbtuples[t][cur[t]]
          IN /\ btree'[e.key] = ret[t]
             /\ tuples'[ret[t]].lock = NULL
             /\ tuples'[e.tuple].lock = NULL
             /\ \A k \in Keys \ {e.key} : btree'[k] = btree[k]]_vars

\* a committer is about to swap in a replacement for a tuple that a
\* concurrent committer, since committed, wrote in place under its own tid
C28_SwapAfterConcurrentWriteWitness ==
  /\ pc[1] = "write_swap"
  /\ 2 \in hist[1].concurrent
  /\ Committed(2)
  /\ LET e == dbtuples[1][cur[1]]
     IN /\ write_set[2][e.key].in
        /\ tuples[e.tuple].version = commit_tid[2].second
        /\ commit_tid[2].second > MIN_TID
        /\ btree[e.key] = e.tuple

\* ---------------------------------------------------------- serial replay
Perms(S) ==
  {f \in [1..Cardinality(S) -> S] : \A i, j \in 1..Cardinality(S) : i # j => f[i] # f[j]}

\* the order of the commit tids, where both transactions minted one
TidOrdered(f) ==
  \A i, j \in DOMAIN f :
    (i < j /\ commit_tid[f[i]].first /\ commit_tid[f[j]].first)
      => commit_tid[f[i]].second < commit_tid[f[j]].second

Apply(store, t) ==
  [k \in Keys |-> IF write_set[t][k].in THEN write_set[t][k].r ELSE store[k]]

\* the contents before the i-th transaction of the serial order runs
RECURSIVE StoreBefore(_, _)
StoreBefore(f, i) == IF i = 1 THEN loaded ELSE Apply(StoreBefore(f, i - 1), f[i - 1])

Observes(t, store) ==
  \A k \in Keys : obs[t][k] # NotObserved => obs[t][k] = store[k]

\* C1: whenever no commit is in progress, the committed transactions have a
\* serial order, that of their commit tids, in which each observes what it
\* observed and which ends in the contents of the index
C1_Serializable ==
  (\A t \in Txns : pc[t] = "idle") =>
    LET C == {t \in Txns : Committed(t)}
    IN \E f \in Perms(C) :
         /\ TidOrdered(f)
         /\ \A i \in DOMAIN f : Observes(f[i], StoreBefore(f, i))
         /\ \A k \in Keys : StoreValue(k) = StoreBefore(f, Cardinality(C) + 1)[k]

====
